---- MODULE Spec2Model ----
(***************************************************************************)
(* Gesture-to-sound control engine of the hand-tracking instrument:        *)
(* the quantizers of music/musicLogic.js, the polyphony manager of         *)
(* audio/audioEngine.js (optimized version) and the per-frame callback of  *)
(* handtracking/handTracker.js.                                            *)
(*                                                                         *)
(* Units.  Time is in milliseconds.  A hand position y in [0,1] is kept in *)
(* thousandths (y = 0.5 is 500).  A velocity is the exact fraction         *)
(* [n |-> thousandths moved, d |-> ms elapsed], i.e. n/d position units    *)
(* per second.  Loudness and visual factors in [0,1] are in thousandths.   *)
(* A note is its JavaScript string ("C#3"); JavaScript null is "null".     *)
(* A JavaScript Set is a duplicate-free sequence in insertion order.       *)
(***************************************************************************)
EXTENDS Integers, Sequences, FiniteSets, TLC

\* ------------------------------------------------------------------ bounds
\* the longest pause of a hand after which its next movement sample is explored
MaxGap == 240
\* largest voice budget tried besides the shipped one
MaxBudget == 2
\* the number of changes of the sound preset explored in one run
MaxSwaps == 2
\* Date.now() / performance.now() at the moment a handler runs.  The program
\* reads its timestamps only through differences with the present, so the state
\* keeps them relative to it: when dt ms pass, every timestamp moves back by dt.
Present == 100000

\* ------------------------------------------------------- program constants
MIN_NOTE_INTERVAL == 30
MIN_CHORD_INTERVAL == 80
BASS_ONLY_SPEED_THRESHOLD == [n |-> 12, d |-> 10]
SETTLE_DURATION_MS == 200
ATTACK_DELAY == 15
ShippedMaxHarmonyVoices == 12
AUDIO_UPDATE_INTERVAL == 20
POSITION_THRESHOLD == 18
VOLUME_THRESHOLD == 40
MIN_PINCH_DIST == 10
MAX_PINCH_DIST == 100
\* the delay of the deferred callback of updateSynths, in ms
SWAP_DELAY == 120

\* config.js
notes == <<"C", "C#", "D", "D#", "E", "F", "F#", "G", "G#", "A", "A#", "B">>

scales == [major      |-> <<0, 2, 4, 5, 7, 9, 11>>,
           minor      |-> <<0, 2, 3, 5, 7, 8, 10>>,
           pentatonic |-> <<0, 2, 4, 7, 9, 12>>,
           majorBlues |-> <<0, 3, 5, 6, 7, 10, 12>>,
           minorBlues |-> <<0, 3, 5, 6, 7, 10, 12>>,
           chromatic  |-> <<0, 1, 2, 3, 4, 5, 6, 7, 8, 9, 10, 11, 12>>]

chordTypes == [major      |-> <<0, 4, 7>>,
               minor      |-> <<0, 3, 7>>,
               minor7     |-> <<0, 3, 7, 10>>,
               diminished |-> <<0, 3, 6>>,
               augmented  |-> <<0, 4, 8>>,
               sus4       |-> <<0, 5, 7>>,
               dominant7  |-> <<0, 4, 7, 10>>,
               major7     |-> <<0, 4, 7, 11>>]

CHORD_PROGRESSIONS ==
  [major      |-> <<"major", "minor", "minor", "major", "major", "minor", "diminished">>,
   minor      |-> <<"minor", "diminished", "major", "minor", "minor", "major", "major">>,
   dorian     |-> <<"minor", "minor", "major", "major", "minor", "diminished", "major">>,
   phrygian   |-> <<"minor", "major", "major", "minor", "diminished", "major", "minor">>,
   lydian     |-> <<"major", "major", "minor", "diminished", "major", "minor", "minor">>,
   mixolydian |-> <<"major", "minor", "diminished", "major", "minor", "minor", "major">>,
   aeolian    |-> <<"minor", "diminished", "major", "minor", "minor", "major", "major">>,
   locrian    |-> <<"diminished", "major", "minor", "minor", "major", "major", "minor">>,
   majorBlues |-> <<"major", "major", "minor", "major", "major", "minor">>,
   minorBlues |-> <<"minor", "minor", "major", "minor", "minor", "major">>,
   pentatonicMajor |-> <<"major", "minor", "minor", "major", "minor">>,
   pentatonicMinor |-> <<"minor", "major", "minor", "minor", "major">>,
   chromatic  |-> <<"major", "minor", "major", "minor", "major", "minor",
                    "major", "minor", "major", "minor", "major", "minor">>]

\* Object.keys(soundPresets)
soundPresets == <<"synth", "bell", "synth2", "pad", "pluck", "piano">>

\* ------------------------------------------------------------ JS helpers
NullNote == "null"
\* null / undefined timestamps, an absent position argument, a null volume
NullTime == -1
UndefinedTime == -2
NoPosition == -1
NullVolume == -1
\* the number NaN, and a value that is not of type 'number' (undefined, a
\* string, a hole of an array), where a number is expected
NaN == -900001
undefined == -900002

Min(a, b) == IF a < b THEN a ELSE b
Max(a, b) == IF a > b THEN a ELSE b
Abs(a) == IF a < 0 THEN -a ELSE a

\* Array.prototype.indexOf on the notes array (0-based, -1 when absent)
indexOf(name) ==
  IF \E i \in 1..Len(notes) : notes[i] = name
  THEN (CHOOSE i \in 1..Len(notes) : notes[i] = name) - 1
  ELSE -1

\* Array.prototype.includes
includes(seq, x) == \E i \in 1..Len(seq) : seq[i] = x

\* Array.prototype.filter with the predicate "is (not) a member of other"
RECURSIVE filterIn(_, _, _)
filterIn(seq, other, keep) ==
  IF seq = <<>> THEN <<>>
  ELSE IF includes(other, Head(seq)) = keep
       THEN <<Head(seq)>> \o filterIn(Tail(seq), other, keep)
       ELSE filterIn(Tail(seq), other, keep)

\* new Set(array): the distinct elements in first-insertion order
RECURSIVE newSet(_)
newSet(seq) ==
  IF seq = <<>> THEN <<>>
  ELSE LET init == newSet(SubSeq(seq, 1, Len(seq) - 1))
           last == seq[Len(seq)]
       IN IF includes(init, last) THEN init ELSE Append(init, last)

\* Array.prototype.slice(0, n)
slice0(seq, n) == SubSeq(seq, 1, Min(Len(seq), Max(0, n)))

\* a variant of mapRangeFloor that maps the input range onto the output range
\* the other way round: PitchMonotone tells it from mapRangeFloor
mapRangeFloorReversed(value, inMin, inMax, outMin, outMax) ==
  IF inMin = inMax THEN outMin
  ELSE ((Max(inMin, Min(inMax, value)) - inMin) * (outMin - outMax)) \div (inMax - inMin) + outMax

\* utils.js mapRange followed by Math.floor; value and the input range are in
\* thousandths, the output range in whole units
mapRangeFloor(value, inMin, inMax, outMin, outMax) ==
  LET clampedValue == Max(inMin, Min(inMax, value))
  IN IF inMin = inMax THEN outMin
     ELSE ((clampedValue - inMin) * (outMax - outMin)) \div (inMax - inMin) + outMin

\* ------------------------------------------------------- music/musicLogic.js
\* a variant of calculateNoteFromMIDI that numbers the octaves from MIDI 0:
\* PositionFormula tells it from calculateNoteFromMIDI
calculateNoteFromMIDINoOffset(midiNote) ==
  notes[(Max(0, Min(127, midiNote)) % 12) + 1]
    \o ToString(Max(0, Min(9, Max(0, Min(127, midiNote)) \div 12)))

calculateNoteFromMIDI(midiNote) ==
  IF midiNote = NaN
  THEN "NaN"      \* notes[NaN] + NaN is the number NaN: Math.min, Math.max pass NaN on
  ELSE
  LET clampedMidi == Max(0, Min(127, midiNote))
      noteIndex == clampedMidi % 12
      octave == (clampedMidi \div 12) - 1
      validNoteIndex == Max(0, Min(11, noteIndex))
      validOctave == Max(0, Min(9, octave))
  IN notes[validNoteIndex + 1] \o ToString(validOctave)

NoteTable == [m \in 0..127 |-> notes[(m % 12) + 1] \o ToString((m \div 12) - 1)]
MidiTable == [s \in {NoteTable[m] : m \in 0..127} |-> CHOOSE m \in 0..127 : NoteTable[m] = s]
toMidi(note) == MidiTable[note]

getChordDisplayName(chordTypeKey) ==
  CASE chordTypeKey = "major" -> ""
    [] chordTypeKey = "minor" -> "m"
    [] chordTypeKey = "diminished" -> "dim"
    [] chordTypeKey = "augmented" -> "aug"
    [] chordTypeKey = "dominant7" -> "7"
    [] chordTypeKey = "minor7" -> "m7"
    [] chordTypeKey = "major7" -> "maj7"
    [] chordTypeKey = "diminished7" -> "dim7"
    [] OTHER -> ""

NoChord == [null |-> TRUE, root |-> "", type |-> "", notes |-> <<>>, name |-> ""]

createFallbackChord(root, octave) ==
  LET safeRoot == IF includes(notes, root) THEN root ELSE "C"
      safeOctave == Max(1, Min(6, octave))
  IN [null |-> FALSE, root |-> safeRoot, type |-> "major",
      notes |-> << safeRoot \o ToString(safeOctave),
                   notes[((indexOf(safeRoot) + 4) % 12) + 1] \o ToString(safeOctave),
                   notes[((indexOf(safeRoot) + 7) % 12) + 1] \o ToString(safeOctave) >>,
      name |-> safeRoot, error |-> TRUE]

\* whether createChord's forEach keeps an interval (NaN is of type 'number'
\* and fails no comparison)
validInterval(interval) ==
  interval # undefined /\ (interval = NaN \/ (interval >= 0 /\ interval <= 24))

\* createChord reading the chord-quality table types
createChordFrom(types, chordRoot, chordTypeKey, octave) ==
  IF chordTypeKey \notin DOMAIN types THEN createFallbackChord(chordRoot, octave)
  ELSE LET intervals == types[chordTypeKey]
           chordRootIndex == indexOf(chordRoot)
       IN IF chordRootIndex = -1 THEN createFallbackChord("C", octave)
          ELSE LET midiBaseForChord == (12 * Max(1, octave)) + chordRootIndex
                   kept == SelectSeq(intervals, validInterval)
                   chordNotes == [i \in 1..Len(kept) |->
                                    calculateNoteFromMIDI(IF kept[i] = NaN THEN NaN
                                                          ELSE midiBaseForChord + kept[i])]
               IN [null |-> FALSE, root |-> chordRoot, type |-> chordTypeKey,
                   notes |-> IF Len(chordNotes) = 0
                             THEN <<calculateNoteFromMIDI(midiBaseForChord)>>
                             ELSE chordNotes,
                   name |-> chordRoot \o getChordDisplayName(chordTypeKey)]

createChord(chordRoot, chordTypeKey, octave) ==
  createChordFrom(chordTypes, chordRoot, chordTypeKey, octave)

\* typeof y === 'number' ? y : 0.5, clamped: Math.min and Math.max pass NaN on
validatedY(y) ==
  IF y = undefined THEN 500 ELSE IF y = NaN THEN NaN ELSE Max(0, Min(1000, y))

\* scales[currentScale] || scales.major
scaleArrayOf(config) ==
  LET currentScale == IF config.selectedScale = "" THEN "major" ELSE config.selectedScale
  IN IF currentScale \in DOMAIN config.scales THEN config.scales[currentScale]
     ELSE config.scales.major

getChordFromPosition(y, use7thChords, config) ==
  LET validY == validatedY(y)
      currentScale == IF config.selectedScale = "" THEN "major" ELSE config.selectedScale
      scaleArray == scaleArrayOf(config)
      currentRoot == IF config.selectedRoot = "" THEN "C" ELSE config.selectedRoot
      currentOctave == Max(2, Min(6, IF config.octave \in {0, NaN} THEN 4 ELSE config.octave))
      scaleLength == Len(scaleArray)
      chordRange == Min(scaleLength, 8)
      position == IF validY = NaN THEN NaN
                  ELSE mapRangeFloor(validY, 150, 850, chordRange - 1, 0)
      scaleDegree == IF position = NaN THEN NaN ELSE Max(0, Min(scaleLength - 1, position))
      rootIndex == indexOf(currentRoot)
      degreeOffset == IF scaleDegree = NaN \/ scaleDegree >= scaleLength THEN undefined
                      ELSE scaleArray[scaleDegree + 1]
  IN IF rootIndex = -1 THEN createFallbackChord(currentRoot, currentOctave)
     ELSE IF degreeOffset = undefined
             \/ (degreeOffset # NaN /\ (degreeOffset < 0 \/ degreeOffset > 11))
          THEN createFallbackChord(currentRoot, currentOctave)
     ELSE IF degreeOffset = NaN
          THEN \* notes[NaN] is undefined: createChord finds no such root
               createFallbackChord("C", currentOctave - 1)
     ELSE LET chordRoot == notes[((rootIndex + degreeOffset) % 12) + 1]
              chordProgression == IF currentScale \in DOMAIN CHORD_PROGRESSIONS
                                  THEN CHORD_PROGRESSIONS[currentScale]
                                  ELSE CHORD_PROGRESSIONS.major
              basicKey == chordProgression[(scaleDegree % Len(chordProgression)) + 1]
              chordTypeKey ==
                IF use7thChords
                THEN CASE basicKey = "major" -> IF scaleDegree = 4 THEN "dominant7" ELSE "major7"
                       [] basicKey = "minor" -> "minor7"
                       [] basicKey = "diminished" -> "diminished7"
                       [] OTHER -> basicKey
                ELSE basicKey
          IN IF chordTypeKey \notin DOMAIN config.chordTypes
             THEN createChordFrom(config.chordTypes, chordRoot, "major", currentOctave - 1)
             ELSE createChordFrom(config.chordTypes, chordRoot, chordTypeKey, currentOctave - 1)

getNoteFromPosition(y, config) ==
  LET validY == validatedY(y)
      scaleArray == scaleArrayOf(config)
      currentOctave == Max(2, Min(7, IF config.octave \in {0, NaN} THEN 4 ELSE config.octave))
      currentRoot == IF config.selectedRoot = "" THEN "C" ELSE config.selectedRoot
      scaleLength == Len(scaleArray)
      totalRange == Max(14, scaleLength + 7)
      position == IF validY = NaN THEN NaN
                  ELSE mapRangeFloor(validY, 0, 1000, totalRange - 1, 0)
      octaveOffset == position \div scaleLength
      indexInScale == position % scaleLength
      semitones == IF position = NaN \/ scaleLength = 0 THEN undefined
                   ELSE scaleArray[indexInScale + 1]
      rootIndex == indexOf(currentRoot)
  IN IF semitones = undefined \/ (semitones # NaN /\ (semitones < 0 \/ semitones > 12))
     THEN currentRoot \o ToString(currentOctave)
     ELSE IF rootIndex = -1 THEN "C" \o ToString(currentOctave)
     ELSE IF semitones = NaN THEN calculateNoteFromMIDI(NaN)
     ELSE calculateNoteFromMIDI(60 + rootIndex + semitones + ((currentOctave - 4 + octaveOffset) * 12))

\* ------------------------------------------------- audio/audioEngine.js
\* v > a/b and v < a/b for a measured velocity v = n/d
vGreater(v, a, b) == v.n * b > a * v.d
vLess(v, a, b) == v.n * b < a * v.d

\* a variant of getBassNote that takes the chord's first note for its bass:
\* MovingBassOnly tells it from getBassNote
getBassNoteFirst(notesArray) ==
  IF Len(notesArray) = 0 THEN NullNote ELSE notesArray[1]

getBassNote(notesArray) ==
  IF Len(notesArray) = 0 THEN NullNote
  ELSE IF Len(notesArray) = 1 THEN notesArray[1]
  ELSE LET reduce[i \in 1..Len(notesArray)] ==
             IF i = 1 THEN notesArray[1]
             ELSE IF toMidi(notesArray[i]) < toMidi(reduce[i - 1])
                  THEN notesArray[i] ELSE reduce[i - 1]
       IN reduce[Len(notesArray)]

\* [...notes].sort(): the default sort orders strings by UTF-16 code units, so a
\* letter decides first, then '#' (35) sorts before any octave digit (48..57)
sortKey(note) ==
  LET m == toMidi(note)
      name == notes[(m % 12) + 1]
      letter == CASE name \in {"A", "A#"} -> 0 [] name = "B" -> 1
                  [] name \in {"C", "C#"} -> 2 [] name \in {"D", "D#"} -> 3
                  [] name = "E" -> 4 [] name \in {"F", "F#"} -> 5 [] OTHER -> 6
      sharp == name \in {"A#", "C#", "D#", "F#", "G#"}
  IN letter * 100 + (IF sharp THEN 0 ELSE 10 + (m \div 12))

RECURSIVE sort(_)
sort(seq) ==
  IF seq = <<>> THEN <<>>
  ELSE LET i == CHOOSE j \in 1..Len(seq) : \A k \in 1..Len(seq) : sortKey(seq[j]) <= sortKey(seq[k])
       IN <<seq[i]>> \o sort(SubSeq(seq, 1, i - 1) \o SubSeq(seq, i + 1, Len(seq)))

\* a variant of chordEquals that compares the notes without sorting them:
\* RetriggerIdempotent tells it from chordEquals
chordEqualsInOrder(chord1, chord2) ==
  IF chord1.null /\ chord2.null THEN TRUE
  ELSE IF chord1.null \/ chord2.null THEN FALSE
  ELSE IF chord1.name # chord2.name THEN FALSE
  ELSE chord1.notes = chord2.notes

chordEquals(chord1, chord2) ==
  IF chord1.null /\ chord2.null THEN TRUE
  ELSE IF chord1.null \/ chord2.null THEN FALSE
  ELSE IF chord1.name # chord2.name THEN FALSE
  ELSE IF Len(chord1.notes) # Len(chord2.notes) THEN FALSE
  ELSE LET notes1 == sort(chord1.notes)
           notes2 == sort(chord2.notes)
       IN \A index \in 1..Len(notes1) : notes1[index] = notes2[index]

\* the number n / d (d > 0) in lowest terms: equal numbers are equal records
RECURSIVE gcd(_, _)
gcd(a, b) == IF b = 0 THEN a ELSE gcd(b, a % b)
quotient(n, d) == [n |-> n \div gcd(n, d), d |-> d \div gcd(n, d)]

updateMovementTracking(tracking, position, now) ==
  LET timeDelta == now - tracking.lastTime
      positionDelta == Abs(position - tracking.lastY)
      velocity == IF tracking.lastTime > 0
                  THEN IF timeDelta > 0 THEN quotient(positionDelta, timeDelta)
                                        ELSE quotient(0, 1)
                  ELSE tracking.velocity
  IN [lastY |-> position, lastTime |-> now, velocity |-> velocity]

\* One call on a synth of the external facade.  The call is logged; it throws
\* when its method is among those the facade fails on in this step.
synthCall(m, synth, op, callNotes, at, vel, faults) ==
  [m EXCEPT !.calls = Append(@, [synth |-> synth, op |-> op, notes |-> callNotes,
                                 at |-> at, vel |-> vel, threw |-> op \in faults]),
            !.thrown = op \in faults]

\* a variant of attackVelocity that grows with the speed of the hand:
\* AttackLoudness tells it from attackVelocity
attackVelocityRising(velocity) ==
  IF vGreater(velocity, 2, 1) THEN 800
  ELSE Max(0, Min(800, (400 * velocity.n) \div velocity.d))

\* Math.min(0.8, 0.4 + (1 - Math.min(velocity, 2)) * 0.4), in thousandths
attackVelocity(velocity) ==
  IF vGreater(velocity, 2, 1) THEN 0
  ELSE Min(800, 400 + (400 * (velocity.d - velocity.n)) \div velocity.d)

\* Math.min(1.0, 0.6 + (1 - Math.min(velocity, 1.5)) * 0.4), in thousandths
chordPulse(velocity) ==
  IF vGreater(velocity, 3, 2) THEN 400
  ELSE Min(1000, 600 + (400 * (velocity.d - velocity.n)) \div velocity.d)

\* Math.min(0.8, velocity * 0.4), in thousandths
noteExplosion(velocity) == Min(800, (400 * velocity.n) \div velocity.d)

\* a variant of stopMelody that silences the chord as well:
\* AxisIndependence tells it from stopMelody
stopMelodyAndChord(m, faults) ==
  IF ~m.eng.melodySynth \/ ~m.audio.rightHandIsPlaying THEN m
  ELSE [synthCall(m, "melody", "triggerRelease", <<>>, 0, 0, {}) EXCEPT
          !.audio.rightHandIsPlaying = FALSE,
          !.audio.currentMelodyNote = NullNote,
          !.eng.lastMelodyNote = NullNote,
          !.audio.leftHandIsPlaying = FALSE,
          !.audio.currentChord = NoChord]

stopMelody(m, faults) ==
  IF ~m.eng.melodySynth THEN m
  ELSE IF m.audio.rightHandIsPlaying
  THEN LET c == synthCall(m, "melody", "triggerRelease", <<>>, 0, 0, faults)
       IN IF c.thrown THEN c
          ELSE [c EXCEPT !.audio.rightHandIsPlaying = FALSE,
                         !.audio.currentMelodyNote = NullNote,
                         !.eng.lastMelodyNote = NullNote]
  ELSE m

\* a variant of stopChord that releases the synth whether or not anything is
\* recorded as sounding: StopIdempotent tells it from stopChord
stopChordAgain(m, faults) ==
  IF ~m.eng.harmonySynth THEN m
  ELSE [synthCall(m, "harmony", "releaseAll", <<>>, 0, 0, {}) EXCEPT
          !.audio.leftHandIsPlaying = FALSE,
          !.audio.currentChord = NoChord,
          !.eng.lastChord = NoChord,
          !.audio.harmonyHandState = "settled",
          !.audio.settleStartTime = NullTime]

stopChord(m, faults) ==
  IF ~m.eng.harmonySynth THEN m
  ELSE IF m.audio.leftHandIsPlaying
          \/ (~m.audio.currentChord.null /\ Len(m.audio.currentChord.notes) > 0)
  THEN LET c == synthCall(m, "harmony", "releaseAll", <<>>, 0, 0, faults)
       IN IF c.thrown THEN c
          ELSE [c EXCEPT !.audio.leftHandIsPlaying = FALSE,
                         !.audio.currentChord = NoChord,
                         !.eng.lastChord = NoChord,
                         !.audio.harmonyHandState = "settled",
                         !.audio.settleStartTime = NullTime]
  ELSE [m EXCEPT !.audio.harmonyHandState = "settled",
                 !.audio.settleStartTime = NullTime]

\* a variant of melodyMethod that starts every accepted note anew:
\* MelodySingleVoice tells it from melodyMethod
melodyMethodRetrigger(rightHandIsPlaying) == "triggerAttack"

\* the synth method an accepted note goes to: a new voice when none sounds,
\* a change of pitch of the sounding voice otherwise
melodyMethod(rightHandIsPlaying) ==
  IF ~rightHandIsPlaying THEN "triggerAttack" ELSE "setNote"

playMelodyNote(m, note, handPosition, landmarkY, now, faults) ==
  IF ~m.audio.audioStarted \/ ~m.eng.melodySynth \/ note = NullNote THEN m
  ELSE
  LET noteChanged == note # m.eng.lastMelodyNote
      yPosition == IF handPosition # NoPosition THEN handPosition
                   ELSE IF landmarkY # NoPosition THEN landmarkY ELSE 500
      tracking == updateMovementTracking(m.eng.movementHistory.melody, yPosition, now)
      velocity == tracking.velocity
      m1 == [m EXCEPT !.eng.movementHistory.melody = tracking]
      timeSinceLastChange == now - m.eng.lastNoteChangeTime
      shouldUpdate == noteChanged /\ (timeSinceLastChange > MIN_NOTE_INTERVAL
                                      \/ vLess(velocity, 1, 2))
  IN IF ~shouldUpdate THEN m1
     ELSE
     LET m2 == [m1 EXCEPT !.accepted = TRUE]
         c == IF melodyMethod(m2.audio.rightHandIsPlaying) = "triggerAttack"
              THEN synthCall(m2, "melody", "triggerAttack", <<note>>, 0, 800, faults)
              ELSE synthCall(m2, "melody", "setNote", <<note>>,
                             IF vGreater(velocity, 1, 1) THEN 20 ELSE 40, 0, faults)
     IN IF c.thrown
        THEN [c EXCEPT !.thrown = FALSE]      \* caught and logged by the try/catch
        ELSE [c EXCEPT !.audio.rightHandIsPlaying = TRUE,
                       !.audio.currentMelodyNote = note,
                       !.vis.noteChangeTime = now,
                       !.vis.particleExplosionFactor =
                           IF ~m2.audio.rightHandIsPlaying THEN 1000 ELSE noteExplosion(velocity),
                       !.eng.lastMelodyNote = note,
                       !.eng.lastNoteChangeTime = now]

\* a variant of handStateStep that calls a slow hand settled at once:
\* LegalTransitions tells it from handStateStep
handStateStepHasty(state, settleStart, isMovingFast, now) ==
  IF isMovingFast THEN <<"moving", NullTime>> ELSE <<"settled", settleStart>>

\* a variant of handStateStep that keeps the settle timer of a hand that
\* starts to move fast: SettleTimer tells it from handStateStep
handStateStepKeepTimer(state, settleStart, isMovingFast, now) ==
  IF isMovingFast THEN <<"moving", settleStart>>
  ELSE IF state = "moving" THEN <<"settling", now>>
  ELSE IF state = "settling" /\ settleStart > 0 /\ now - settleStart > SETTLE_DURATION_MS
       THEN <<"settled", settleStart>>
  ELSE <<state, settleStart>>

\* the hand state machine of playChord: <<harmonyHandState, settleStartTime>>
\* after the step, from the state before it
handStateStep(state, settleStart, isMovingFast, now) ==
  IF isMovingFast THEN <<"moving", NullTime>>
  ELSE LET s1 == IF state = "moving" THEN <<"settling", now>> ELSE <<state, settleStart>>
           start == IF s1[2] > 0 THEN s1[2] ELSE now
       IN IF s1[1] = "settling" /\ now - start > SETTLE_DURATION_MS
          THEN <<"settled", s1[2]>> ELSE s1

\* the target while settled: the chord's first notes, as many as the budget allows
settledNotes(newRawNotes, budget) ==
  newSet(slice0(newRawNotes, Min(budget, Len(newRawNotes))))

\* a variant of settleNotes that adds the third note at any velocity:
\* SettlingPartial tells it from settleNotes
settleNotesEager(newRawNotes, newBassNote, velocity) ==
  newSet(<<newBassNote>>
         \o (IF Len(newRawNotes) > 1 THEN <<newRawNotes[2]>> ELSE <<>>)
         \o (IF Len(newRawNotes) > 2 THEN <<newRawNotes[3]>> ELSE <<>>))

\* the target while settling: the bass, the chord's second note, and its third
\* note when the hand is very slow
settleNotes(newRawNotes, newBassNote, velocity) ==
  newSet(<<newBassNote>>
         \o (IF Len(newRawNotes) > 1 THEN <<newRawNotes[2]>> ELSE <<>>)
         \o (IF Len(newRawNotes) > 2 /\ vLess(velocity, 3, 10)
             THEN <<newRawNotes[3]>> ELSE <<>>))

\* targetNotesThisStepSet
targetNotes(state, newRawNotes, velocity, isMovingFast, budget) ==
  IF isMovingFast THEN <<getBassNote(newRawNotes)>>
  ELSE IF state = "settled" THEN settledNotes(newRawNotes, budget)
  ELSE settleNotes(newRawNotes, getBassNote(newRawNotes), velocity)

\* a variant of notesToRelease that releases all that sounded, as the oldest
\* engine does: Legato tells it from notesToRelease
notesToReleaseAll(previouslyPlayingNotesSet, targetNotesThisStepSet) ==
  previouslyPlayingNotesSet

\* the three parts of the difference between what sounds and the target
notesToRelease(previouslyPlayingNotesSet, targetNotesThisStepSet) ==
  filterIn(previouslyPlayingNotesSet, targetNotesThisStepSet, FALSE)

notesToAttack(previouslyPlayingNotesSet, targetNotesThisStepSet) ==
  filterIn(targetNotesThisStepSet, previouslyPlayingNotesSet, FALSE)

notesThatContinue(previouslyPlayingNotesSet, targetNotesThisStepSet) ==
  filterIn(previouslyPlayingNotesSet, targetNotesThisStepSet, TRUE)

\* finalNotesForState: the notes playChord records in appState.audio.currentChord.notes
finalNotes(continuing, toAttack, actualNotesToAttack) ==
  newSet(continuing \o toAttack)

\* a variant of attackDelayFor that schedules the attack ahead of the present:
\* ReleaseBeforeAttack tells it from attackDelayFor
attackDelayEarly(toRelease) == 0 - ATTACK_DELAY

\* the delay of the attack after toneNow, in ms: ATTACK_DELAY when notes are
\* released in the same update, 0.01 s otherwise
attackDelayFor(toRelease) == IF Len(toRelease) > 0 THEN ATTACK_DELAY ELSE 10

\* whether playChord lets an update through its throttle
chordGate(chordChanged, timeSinceLastChange, isMovingFast) ==
  chordChanged /\ (timeSinceLastChange > MIN_CHORD_INTERVAL
                   \/ (~isMovingFast /\ 2 * timeSinceLastChange > MIN_CHORD_INTERVAL))

playChord(m0, chord, handPosition, landmarkY, now, budget, faults) ==
  IF ~m0.audio.audioStarted \/ ~m0.eng.harmonySynth THEN m0
  ELSE
  LET m == [m0 EXCEPT
              !.audio.harmonyHandState = IF @ = "undefined" THEN "settled" ELSE @,
              !.audio.settleStartTime = IF @ = UndefinedTime THEN NullTime ELSE @]
  IN IF chord.null \/ Len(chord.notes) = 0
     THEN IF m.audio.leftHandIsPlaying THEN stopChord(m, faults) ELSE m
     ELSE
     LET chordChanged == ~chordEquals(chord, m.eng.lastChord)
         yPosition == IF handPosition # NoPosition THEN handPosition
                      ELSE IF landmarkY # NoPosition THEN landmarkY ELSE 500
         tracking == updateMovementTracking(m.eng.movementHistory.harmony, yPosition, now)
         velocity == tracking.velocity
         m1 == [m EXCEPT !.eng.movementHistory.harmony = tracking]
         timeSinceLastChange == now - m.eng.lastChordChangeTime
         isMovingFast == vGreater(velocity, BASS_ONLY_SPEED_THRESHOLD.n,
                                  BASS_ONLY_SPEED_THRESHOLD.d)
         shouldUpdate == chordGate(chordChanged, timeSinceLastChange, isMovingFast)
     IN IF ~shouldUpdate THEN m1
        ELSE
        LET hs == handStateStep(m1.audio.harmonyHandState, m1.audio.settleStartTime,
                                isMovingFast, now)
            targetNotesThisStepSet == targetNotes(hs[1], chord.notes, velocity,
                                                  isMovingFast, budget)
            m2 == [m1 EXCEPT !.accepted = TRUE,
                             !.audio.harmonyHandState = hs[1],
                             !.audio.settleStartTime = hs[2]]
            previouslyPlayingNotesSet == newSet(m2.audio.currentChord.notes)
            toRelease == notesToRelease(previouslyPlayingNotesSet, targetNotesThisStepSet)
            toAttack == notesToAttack(previouslyPlayingNotesSet, targetNotesThisStepSet)
            continuing == notesThatContinue(previouslyPlayingNotesSet, targetNotesThisStepSet)
            m3 == IF Len(toRelease) > 0
                  THEN synthCall(m2, "harmony", "triggerRelease", toRelease, 0, 0, faults)
                  ELSE m2
            voicesAvailable == budget - Len(continuing)
            actualNotesToAttack == slice0(toAttack, Max(0, voicesAvailable))
            attackDelay == attackDelayFor(toRelease)
            m4 == IF ~m3.thrown /\ Len(toAttack) > 0 /\ Len(actualNotesToAttack) > 0
                  THEN synthCall(m3, "harmony", "triggerAttack", actualNotesToAttack,
                                 attackDelay, attackVelocity(velocity), faults)
                  ELSE m3
            finalNotesForState == finalNotes(continuing, toAttack, actualNotesToAttack)
        IN IF m4.thrown THEN m4               \* no try/catch: the exception leaves playChord
           ELSE [m4 EXCEPT
                   !.audio.currentChord = [chord EXCEPT !.notes = finalNotesForState],
                   !.audio.leftHandIsPlaying = Len(finalNotesForState) > 0,
                   !.eng.lastChord = chord,
                   !.eng.lastChordChangeTime = now,
                   !.vis.chordChangeTime = now,
                   !.vis.pulseFactor = IF Len(finalNotesForState) > 0
                                       THEN chordPulse(velocity) ELSE @]

\* setVolume: mapRange(pinch, MIN_PINCH_DIST, MAX_PINCH_DIST, -200, -15), in
\* thousandths of a decibel (pinch distances in thousandths)
setVolume(m, hand, pinchDistance) ==
  IF ~m.audio.audioStarted THEN m
  ELSE LET clamped == Max(MIN_PINCH_DIST, Min(MAX_PINCH_DIST, pinchDistance))
           volume == ((clamped - MIN_PINCH_DIST) * 185000) \div (MAX_PINCH_DIST - MIN_PINCH_DIST)
                     - 200000
       IN IF hand = "left" THEN [m EXCEPT !.audio.leftHandVolume = volume]
                           ELSE [m EXCEPT !.audio.rightHandVolume = volume]

\* new Tone.Synth / new Tone.PolySynth, assigned to melodySynth and harmonySynth:
\* eng.disposed has one entry for every pair of synths created, with the number
\* of dispose() calls each of the two has had, and eng.synthPair is the index of
\* the pair the two module variables refer to (0: undefined)
createSynths(m) ==
  [m EXCEPT !.eng.melodySynth = TRUE,
            !.eng.harmonySynth = TRUE,
            !.eng.disposed = Append(@, [melody |-> 0, harmony |-> 0]),
            !.eng.synthPair = Len(m.eng.disposed) + 1]

\* setupAudio of the optimized engine; the result is the audio machine, the
\* value of appState.config.selectedSound and whether an exception left the call
setupAudio(m, selectedSound) ==
  IF ~m.audio.audioStarted THEN [m |-> m, selectedSound |-> selectedSound, threw |-> FALSE]
  ELSE IF m.eng.melodySynth \/ m.eng.harmonySynth
  THEN [m |-> m, selectedSound |-> selectedSound, threw |-> FALSE]
  ELSE IF ~includes(soundPresets, selectedSound)
  THEN IF Len(soundPresets) = 0
       THEN [m |-> m, selectedSound |-> selectedSound, threw |-> FALSE]
       ELSE [m |-> createSynths(m), selectedSound |-> soundPresets[1], threw |-> FALSE]
  ELSE [m |-> createSynths(m), selectedSound |-> selectedSound, threw |-> FALSE]

\* setupAudio of audio/audioEngine.js, which ui/uiManager.js imports under this
\* name.  For an unknown preset name currentSoundPreset is undefined, and
\* Object.assign(currentSoundPreset, newSoundPreset) throws a TypeError after
\* appState.config.selectedSound has been set and before a synth is created.
initializeAudioEngine(m, selectedSound) ==
  IF ~m.audio.audioStarted THEN [m |-> m, selectedSound |-> selectedSound, threw |-> FALSE]
  ELSE IF m.eng.melodySynth \/ m.eng.harmonySynth
  THEN [m |-> m, selectedSound |-> selectedSound, threw |-> FALSE]
  ELSE IF ~includes(soundPresets, selectedSound)
  THEN IF Len(soundPresets) = 0
       THEN [m |-> m, selectedSound |-> undefined, threw |-> FALSE]
       ELSE [m |-> m, selectedSound |-> soundPresets[1], threw |-> TRUE]
  ELSE [m |-> createSynths(m), selectedSound |-> selectedSound, threw |-> FALSE]

\* updateSynths: both synths are released and the callback that swaps them is
\* scheduled; an exception of a release is caught and nothing is scheduled
updateSynths(m, selectedSound, now, faults) ==
  IF ~m.audio.audioStarted \/ ~m.eng.melodySynth \/ ~m.eng.harmonySynth THEN m
  ELSE IF ~includes(soundPresets, selectedSound) THEN m
  ELSE LET c1 == synthCall(m, "melody", "triggerRelease", <<>>, 0, 0, faults)
           c2 == IF c1.thrown THEN c1
                 ELSE synthCall(c1, "harmony", "releaseAll", <<>>, 0, 0, faults)
       IN IF c2.thrown THEN [c2 EXCEPT !.thrown = FALSE]
          ELSE [c2 EXCEPT !.eng.pendingResets = Append(@, now + SWAP_DELAY)]

\* a variant of deferredReset that leaves the recorded melody note in place:
\* PlayingFlagsAgree tells it from deferredReset
deferredResetKeepNote(m) ==
  [createSynths([m EXCEPT !.eng.disposed[m.eng.synthPair] =
                            [melody |-> @.melody + 1, harmony |-> @.harmony + 1]])
   EXCEPT !.eng.pendingResets = Tail(@),
          !.audio.rightHandIsPlaying = FALSE,
          !.audio.leftHandIsPlaying = FALSE,
          !.audio.currentChord = NoChord,
          !.eng.lastMelodyNote = NullNote,
          !.eng.lastChord = NoChord]

\* a variant of deferredReset that replaces the synths without disposing of
\* them: SwapCompletes tells it from deferredReset
deferredResetNoDispose(m) ==
  [createSynths(m)
   EXCEPT !.eng.pendingResets = Tail(@),
          !.audio.rightHandIsPlaying = FALSE,
          !.audio.leftHandIsPlaying = FALSE,
          !.audio.currentMelodyNote = NullNote,
          !.audio.currentChord = NoChord,
          !.eng.lastMelodyNote = NullNote,
          !.eng.lastChord = NoChord]

\* the callback updateSynths defers: the synths the module variables refer to
\* are disposed of, a new pair takes their place and the playing state is reset
deferredReset(m) ==
  [createSynths([m EXCEPT !.eng.disposed[m.eng.synthPair] =
                            [melody |-> @.melody + 1, harmony |-> @.harmony + 1]])
   EXCEPT !.eng.pendingResets = Tail(@),
          !.audio.rightHandIsPlaying = FALSE,
          !.audio.leftHandIsPlaying = FALSE,
          !.audio.currentMelodyNote = NullNote,
          !.audio.currentChord = NoChord,
          !.eng.lastMelodyNote = NullNote,
          !.eng.lastChord = NoChord]

\* ------------------------------------------- handtracking/handTracker.js
shouldUpdateAudio(currentTime, lastAudioUpdate) ==
  currentTime - lastAudioUpdate > AUDIO_UPDATE_INTERVAL

\* !previous holds for null and for 0
hasSignificantChange(current, previous, threshold) ==
  IF previous <= 0 THEN TRUE ELSE Abs(current - previous) > threshold

RightHandReset == [note |-> NullNote, volume |-> NullVolume, yPosition |-> 500]
LeftHandReset == [note |-> NoChord, volume |-> NullVolume, yPosition |-> 500,
                  lastSignificantY |-> 500]

\* the body of the loop of onHandResults for one detected hand; w is the
\* record [m, hands, tr] of the audio machine, appState.hands and the
\* tracker's module state
\* the value of an expression that is evaluated once and then used as a constant
only(S) == CHOOSE x \in S : TRUE

processHand(w, hand, shouldUpdateAudioNow, now, config, budget, faults) ==
  IF ~hand.classified THEN w
  ELSE IF hand.label = "Left"
  THEN \* MediaPipe's 'Left' is the player's right hand: melody
    LET w1 == [w EXCEPT !.hands.isRightHandPresent = TRUE,
                        !.hands.rightY = IF hand.valid THEN hand.y ELSE NoPosition]
    IN IF ~hand.valid THEN w1
       ELSE
       LET w2 == [w1 EXCEPT !.tr.rightHand.yPosition = hand.y]
       IN IF ~shouldUpdateAudioNow THEN w2
          ELSE
          LET volChange == hasSignificantChange(hand.pinch, w2.tr.rightHand.volume, VOLUME_THRESHOLD)
              w3 == IF volChange
                    THEN [w2 EXCEPT !.m = setVolume(@, "right", hand.pinch),
                                    !.tr.rightHand.volume = hand.pinch]
                    ELSE w2
              note == getNoteFromPosition(hand.y, config)
          IN IF note # w3.tr.rightHand.note
                \/ hasSignificantChange(hand.y, w3.tr.rightHand.yPosition, POSITION_THRESHOLD)
             THEN only({IF r.thrown THEN [w3 EXCEPT !.m = r]
                        ELSE [w3 EXCEPT !.m = r, !.tr.rightHand.note = note] :
                        r \in {playMelodyNote(w3.m, note, hand.y, w3.hands.rightY, now, faults)}})
             ELSE w3
  ELSE \* harmony hand
    LET w1 == [w EXCEPT !.hands.isLeftHandPresent = TRUE,
                        !.hands.leftY = IF hand.valid THEN hand.y ELSE NoPosition]
    IN IF ~hand.valid THEN w1
       ELSE
       LET w2 == [w1 EXCEPT !.tr.leftHand.yPosition = hand.y]
       IN IF ~shouldUpdateAudioNow THEN w2
          ELSE
          LET volChange == hasSignificantChange(hand.pinch, w2.tr.leftHand.volume, VOLUME_THRESHOLD)
              w3 == IF volChange
                    THEN [w2 EXCEPT !.m = setVolume(@, "left", hand.pinch),
                                    !.tr.leftHand.volume = hand.pinch]
                    ELSE w2
              chord == getChordFromPosition(hand.y, FALSE, config)
              chordChanged == \/ chord.null
                              \/ w3.tr.leftHand.note.null
                              \/ chord.name # w3.tr.leftHand.note.name
                              \/ hasSignificantChange(hand.y, w3.tr.leftHand.lastSignificantY,
                                                      (POSITION_THRESHOLD * 3) \div 2)
          IN IF chordChanged
             THEN only({IF r.thrown THEN [w3 EXCEPT !.m = r]
                        ELSE [w3 EXCEPT !.m = r, !.tr.leftHand.note = chord,
                                        !.tr.leftHand.lastSignificantY = hand.y] :
                        r \in {playChord(w3.m, chord, hand.y, w3.hands.leftY, now, budget, faults)}})
             ELSE w3

\* stopMelody / stopChord for a hand that was present and is not any more
stopRight(w, was, faults) ==
  IF w.m.thrown \/ ~was \/ w.hands.isRightHandPresent THEN w
  ELSE only({IF r.thrown THEN [w EXCEPT !.m = r]
             ELSE [w EXCEPT !.m = r, !.tr.rightHand = RightHandReset] : r \in {stopMelody(w.m, faults)}})

\* a variant of stopLeft that runs only in ticks that updated the audio:
\* Disappearance tells it from stopLeft
stopLeftThrottled(w, was, faults) ==
  IF w.tr.lastAudioUpdate # Present THEN w
  ELSE IF w.m.thrown \/ ~was \/ w.hands.isLeftHandPresent THEN w
  ELSE only({IF r.thrown THEN [w EXCEPT !.m = r]
             ELSE [w EXCEPT !.m = r, !.tr.leftHand = LeftHandReset] : r \in {stopChord(w.m, faults)}})

stopLeft(w, was, faults) ==
  IF w.m.thrown \/ ~was \/ w.hands.isLeftHandPresent THEN w
  ELSE only({IF r.thrown THEN [w EXCEPT !.m = r]
             ELSE [w EXCEPT !.m = r, !.tr.leftHand = LeftHandReset] : r \in {stopChord(w.m, faults)}})

\* results: the sequence of at most two detected hands of one frame
onHandResults(w0, results, now, config, budget, faults) ==
  LET wasLeftHandPresent == w0.hands.isLeftHandPresent
      wasRightHandPresent == w0.hands.isRightHandPresent
      handDetected == Len(results) > 0
      w1 == [w0 EXCEPT !.hands.isLeftHandPresent = FALSE,
                       !.hands.isRightHandPresent = FALSE,
                       !.hands.leftY = NoPosition,
                       !.hands.rightY = NoPosition,
                       !.hands.handDetected = handDetected]
  IN IF handDetected
     THEN \* the loop over the hands, the audio timestamp, then the two stop blocks,
          \* each step on the state its predecessor left
          LET shouldUpdateAudioNow == shouldUpdateAudio(now, w1.tr.lastAudioUpdate)
          IN only(
            {stopLeft(h4, wasLeftHandPresent, faults) : h4 \in
              {stopRight(h3, wasRightHandPresent, faults) : h3 \in
                {IF shouldUpdateAudioNow /\ ~h2.m.thrown
                 THEN [h2 EXCEPT !.tr.lastAudioUpdate = now] ELSE h2 : h2 \in
                  {IF Len(results) > 1 /\ ~h1.m.thrown
                   THEN processHand(h1, results[2], shouldUpdateAudioNow, now, config, budget, faults)
                   ELSE h1 : h1 \in
                    {processHand(w1, results[1], shouldUpdateAudioNow, now, config, budget, faults)}}}}})
     ELSE \* no hands: both stop blocks run twice, the second time on the reset state
          only(
            {stopLeft(n3, wasLeftHandPresent, faults) : n3 \in
              {stopRight(n2, wasRightHandPresent, faults) : n2 \in
                {stopLeft(n1, wasLeftHandPresent, faults) : n1 \in
                  {stopRight(w1, wasRightHandPresent, faults)}}}})

\* ui/uiManager.js handleStartClick with the optimized engine: the audio
\* context is started and setupAudio is called
handleStartClick(m, selectedSound) ==
  setupAudio([m EXCEPT !.audio.audioStarted = TRUE], selectedSound)

\* ------------------------------------------------------------------ state
VARIABLES
  MAX_HARMONY_VOICES,   \* PERFORMANCE_CONFIG.MAX_HARMONY_VOICES of this build
  config,               \* appState.config
  audio,                \* appState.audio
  vis,                  \* appState.noteChangeTime, chordChangeTime, particleExplosionFactor, pulseFactor
  eng,                  \* module state of audioEngine.js
  hands,                \* appState.hands
  tr,                   \* module state of handTracker.js
  ev,                   \* the last handler run: its inputs, what it saw before, its synth calls
  calmSince             \* since when the harmony hand, having been 'moving', is present and slow

vars == <<MAX_HARMONY_VOICES, config, audio, vis, eng, hands, tr, ev, calmSince>>

\* ------------------------------------------------------------------ inputs
TimeSteps == {40, 120, 240}
FaultSteps == {120}
FaultNotes == {"C4", "D4"}
FrameSteps == {120, 240}
Positions == {500, 700}
HarmonyPositions == {300, 520}
MelodyPositions == {400}
Pinches == {50}
SynthMethods == {"triggerAttack", "triggerRelease", "releaseAll", "setNote"}
Faults == {{}} \cup {{op} : op \in SynthMethods}
HarmonyFaults == {{}} \cup {{op} : op \in SynthMethods \ {"setNote"}}

ChordC == createChord("C", "major", 3)
ChordCPermuted == [ChordC EXCEPT !.notes = <<ChordC.notes[3], ChordC.notes[2], ChordC.notes[1]>>]
ChordG7 == createChord("G", "dominant7", 3)
Chords == {ChordC, ChordCPermuted, ChordG7, NoChord}
FaultChords == {ChordC, ChordG7, NoChord}

\* one detected hand: MediaPipe's label, the wrist's y, the pinch distance,
\* whether the landmarks are usable and whether a handedness came with it
HarmonyHands ==
  [label : {"Right"}, y : HarmonyPositions, pinch : Pinches, valid : {TRUE}, classified : {TRUE}]
  \cup [label : {"Right"}, y : {520}, pinch : Pinches, valid : {FALSE}, classified : {TRUE}]
MelodyHands ==
  [label : {"Left"}, y : MelodyPositions, pinch : Pinches, valid : {TRUE}, classified : {TRUE}]
OtherHands ==
  [label : {"Left"}, y : {500}, pinch : Pinches, valid : {FALSE}, classified : {TRUE}]
  \cup [label : {"Right"}, y : {520}, pinch : Pinches, valid : {TRUE}, classified : {FALSE}]
Frames ==
  {<<>>} \cup {<<h>> : h \in HarmonyHands \cup MelodyHands \cup OtherHands}
         \cup {<<h1, h2>> : h1 \in HarmonyHands, h2 \in MelodyHands}

\* config.js as shipped: appState.config, and the tables the quantizers import
ShippedConfig == [selectedScale |-> "major", selectedRoot |-> "C", octave |-> 4,
                  selectedSound |-> "pad", scales |-> scales, chordTypes |-> chordTypes]

\* malformed copies of the tables of config.js: entries that are NaN, not
\* numbers or out of range, an empty scale, repeated intervals, missing qualities
MalformedScales ==
  [scales EXCEPT !.major = <<0, 2, NaN, 5, 13, undefined, -1>>, !.minor = <<>>]
MalformedChordTypes ==
  [major |-> <<0, 0, 7>>, minor |-> <<NaN, 3, 7>>, diminished |-> <<undefined, 30, -1>>]

\* the settings the quantizers are tried with: every root, every shipped scale
\* and octave besides unknown names, empty names and octaves out of range
Roots == {notes[i] : i \in 1..Len(notes)} \cup {"H", ""}
ScaleNames == DOMAIN scales \cup {"dorian"}
Octaves == {0, 1, 2, 3, 4, 5, 6, 7, 9}
Configs ==
  [selectedScale : ScaleNames, selectedRoot : Roots, octave : Octaves,
   selectedSound : {"pad"}, scales : {scales}, chordTypes : {chordTypes}]
  \cup [selectedScale : {"major", "minor", ""}, selectedRoot : {"C", "A", "H"}, octave : {4, NaN},
         selectedSound : {"pad"}, scales : {MalformedScales}, chordTypes : {MalformedChordTypes}]
\* a hand position: one for every index of the widest note range, the ends of
\* the chord range, positions off the screen, NaN and a missing value
\* frames that show one hand, and frame intervals on both sides of the
\* engine's minimum intervals (the tracker's throttle lets both through)
GateSteps == {120}
QuickSteps == {25}
GatePositions == {400, 600}
GateFrames ==
  {<<>>}
  \cup {<<h>> : h \in [label : {"Right"}, y : HarmonyPositions, pinch : Pinches,
                        valid : {TRUE}, classified : {TRUE}]}
  \cup {<<h>> : h \in [label : {"Left"}, y : GatePositions, pinch : Pinches,
                        valid : {TRUE}, classified : {TRUE}]}

Ys == {40 * k : k \in 0..25} \cup {150, 500, 850, -200, 1200, NaN, undefined}

NoEvent == [op |-> "none", chord |-> NoChord, note |-> NullNote, prevNotes |-> <<>>,
            y |-> undefined, use7thChords |-> FALSE, attacks |-> 0, sinceLast |-> NullTime,
            sounding |-> {}, frameCount |-> 0,
            prevHandState |-> "undefined", sameAsLast |-> FALSE, accepted |-> FALSE,
            calls |-> <<>>, escaped |-> FALSE, wasLeft |-> FALSE, wasRight |-> FALSE]

Loaded ==
  /\ audio = [audioStarted |-> FALSE, leftHandIsPlaying |-> FALSE,
              rightHandIsPlaying |-> FALSE, currentMelodyNote |-> NullNote,
              currentChord |-> NoChord, leftHandVolume |-> -14000,
              rightHandVolume |-> -10000, harmonyHandState |-> "undefined",
              settleStartTime |-> UndefinedTime]
  /\ vis = [noteChangeTime |-> 0, chordChangeTime |-> 0,
            particleExplosionFactor |-> 0, pulseFactor |-> 0]
  /\ eng = [melodySynth |-> FALSE, harmonySynth |-> FALSE,
            lastMelodyNote |-> NullNote, lastChord |-> NoChord,
            lastNoteChangeTime |-> 0, lastChordChangeTime |-> 0,
            synthPair |-> 0, disposed |-> <<>>, pendingResets |-> <<>>,
            movementHistory |->
              [melody |-> [lastY |-> 0, lastTime |-> 0, velocity |-> [n |-> 0, d |-> 1]],
               harmony |-> [lastY |-> 0, lastTime |-> 0, velocity |-> [n |-> 0, d |-> 1]]]]
  /\ hands = [isLeftHandPresent |-> FALSE, isRightHandPresent |-> FALSE,
              leftY |-> NoPosition, rightY |-> NoPosition, handDetected |-> FALSE]
  /\ tr = [lastAudioUpdate |-> 0, leftHand |-> LeftHandReset, rightHand |-> RightHandReset]
  /\ ev = NoEvent
  /\ calmSince = NullTime

Constructed == config = ShippedConfig /\ Loaded

\* the state after the page has loaded, for a build with any small voice budget
\* or the shipped one
Init == MAX_HARMONY_VOICES \in (1..MaxBudget) \cup {ShippedMaxHarmonyVoices} /\ Constructed

\* the state after the page has loaded, for the shipped build
InitShipped == MAX_HARMONY_VOICES = ShippedMaxHarmonyVoices /\ Constructed

\* the state after the page has loaded, for any of the settings above
InitQuantize ==
  MAX_HARMONY_VOICES = ShippedMaxHarmonyVoices /\ config \in Configs /\ Loaded

\* the presets the sound selector is changed to, and the time between two
\* handlers while the presets are swapped
SwapSounds == {"bell"}
SwapSteps == {120}

\* the shipped preset name and one that config.js does not define
Sounds == {"pad", "organ"}

\* the state after the page has loaded, with either preset name selected
InitSetup ==
  /\ MAX_HARMONY_VOICES = ShippedMaxHarmonyVoices
  /\ config \in {[ShippedConfig EXCEPT !.selectedSound = sound] : sound \in Sounds}
  /\ Loaded

\* ---------------------------------------------------------- passing of time
\* A timestamp after dt ms have passed (0, null and undefined are no
\* timestamps; a timer that is due stays due).  The code compares the age of a timestamp with one interval
\* only, so an age beyond that interval is kept as just beyond it.
aged(t, dt, interval) == IF t <= 0 THEN t ELSE Max(t - dt, Present - (interval + 1))

\* the audio machine a handler starts from, dt ms after the last handler;
\* chordChangeTime and noteChangeTime are read by nothing in the source and
\* age like the engine's own timestamps of the same events
machine(dt) ==
  [audio |-> [audio EXCEPT !.settleStartTime = aged(@, dt, SETTLE_DURATION_MS)],
   eng |-> [eng EXCEPT !.lastNoteChangeTime = aged(@, dt, MIN_NOTE_INTERVAL),
                       !.lastChordChangeTime = aged(@, dt, MIN_CHORD_INTERVAL),
                       !.pendingResets = [i \in DOMAIN @ |-> Max(@[i] - dt, Present)],
                       !.movementHistory.melody.lastTime = aged(@, dt, MaxGap),
                       !.movementHistory.harmony.lastTime = aged(@, dt, MaxGap)],
   vis |-> [vis EXCEPT !.noteChangeTime = aged(@, dt, MIN_NOTE_INTERVAL),
                       !.chordChangeTime = aged(@, dt, MIN_CHORD_INTERVAL)],
   calls |-> <<>>, thrown |-> FALSE, accepted |-> FALSE]

tracker(dt) == [tr EXCEPT !.lastAudioUpdate = aged(@, dt, AUDIO_UPDATE_INTERVAL)]

\* a velocity is measured over the true time since the last sample: the step
\* is explored only if the sample it measures from is at most MaxGap old
measurable(before, after) ==
  (after.lastTime = Present /\ before.lastTime > 0) => Present - before.lastTime <= MaxGap

Commit(m0, r) ==
  /\ measurable(m0.eng.movementHistory.melody, r.eng.movementHistory.melody)
  /\ measurable(m0.eng.movementHistory.harmony, r.eng.movementHistory.harmony)
  /\ audio' = r.audio
  /\ eng' = r.eng
  /\ vis' = r.vis

\* ----------------------------------------------------------------- actions
\* the notes that sound on a harmony synth that honours every call, after the
\* calls of one handler: those attacked and not released since
RECURSIVE soundingAfter(_, _)
soundingAfter(sounding, calls) ==
  IF calls = <<>> THEN sounding
  ELSE LET c == Head(calls)
           heard == {c.notes[i] : i \in 1..Len(c.notes)}
       IN soundingAfter(IF c.synth # "harmony" \/ c.threw THEN sounding
                        ELSE IF c.op = "triggerAttack" THEN sounding \cup heard
                        ELSE IF c.op = "triggerRelease" THEN sounding \ heard
                        ELSE IF c.op = "releaseAll" THEN {}
                        ELSE sounding,
                        Tail(calls))

StartAudio ==
  /\ ~audio.audioStarted
  /\ \E r \in {handleStartClick(machine(0), config.selectedSound)} :
        /\ Commit(machine(0), r.m)
        /\ config' = [config EXCEPT !.selectedSound = r.selectedSound]
  /\ ev' = [NoEvent EXCEPT !.op = "startAudio"]
  /\ UNCHANGED <<MAX_HARMONY_VOICES, hands, tr, calmSince>>

sameChord(c1, c2) ==
  /\ ~c1.null
  /\ ~c2.null
  /\ c1.name = c2.name
  /\ {c1.notes[i] : i \in 1..Len(c1.notes)} = {c2.notes[i] : i \in 1..Len(c2.notes)}

PlayChord(chord, y, dt, faults) ==
  /\ \E r \in {playChord(machine(dt), chord, y, hands.leftY, Present, MAX_HARMONY_VOICES, faults)} :
        /\ Commit(machine(dt), r)
        /\ ev' = [NoEvent EXCEPT !.op = "playChord", !.chord = chord,
                                 !.prevNotes = audio.currentChord.notes,
                                 !.prevHandState = audio.harmonyHandState,
                                 !.sameAsLast = sameChord(chord, eng.lastChord),
                                 !.sounding = soundingAfter(ev.sounding, r.calls),
                                 !.accepted = r.accepted, !.calls = r.calls,
                                 !.escaped = r.thrown,
                                 !.sinceLast = IF eng.lastChordChangeTime <= 0 THEN NullTime
                                               ELSE Present - machine(dt).eng.lastChordChangeTime]
  /\ tr' = tracker(dt)
  /\ calmSince' = aged(calmSince, dt, SETTLE_DURATION_MS)
  /\ UNCHANGED <<MAX_HARMONY_VOICES, config, hands>>

StopChord(dt, faults) ==
  /\ \E r \in {stopChord(machine(dt), faults)} :
        /\ Commit(machine(dt), r)
        /\ ev' = [NoEvent EXCEPT !.op = "stopChord",
                                 !.prevNotes = audio.currentChord.notes,
                                 !.prevHandState = audio.harmonyHandState,
                                 !.sounding = soundingAfter(ev.sounding, r.calls),
                                 !.calls = r.calls, !.escaped = r.thrown]
  /\ tr' = tracker(dt)
  /\ calmSince' = aged(calmSince, dt, SETTLE_DURATION_MS)
  /\ UNCHANGED <<MAX_HARMONY_VOICES, config, hands>>

\* the number of triggerAttack calls among the calls of one handler
attacksIn(calls) == Cardinality({i \in 1..Len(calls) : calls[i].op = "triggerAttack"})

\* ev.sounding, kept by PlayChord and StopChord, is the set of notes that sound on
\* the harmony synth.
\* ev.attacks counts the triggerAttack calls since the last call of stopMelody
\* (two stands for two or more); ev.sinceLast is the time since the last
\* accepted change of the axis, as the handler measures it
PlayMelodyNote(note, y, dt, faults) ==
  /\ \E r \in {playMelodyNote(machine(dt), note, y, hands.rightY, Present, faults)} :
        /\ Commit(machine(dt), r)
        /\ ev' = [NoEvent EXCEPT !.op = "playMelodyNote", !.note = note,
                                 !.accepted = r.accepted, !.calls = r.calls,
                                 !.escaped = r.thrown,
                                 !.attacks = Min(2, ev.attacks + attacksIn(r.calls)),
                                 !.sinceLast = IF eng.lastNoteChangeTime <= 0 THEN NullTime
                                               ELSE Present - machine(dt).eng.lastNoteChangeTime]
  /\ tr' = tracker(dt)
  /\ calmSince' = aged(calmSince, dt, SETTLE_DURATION_MS)
  /\ UNCHANGED <<MAX_HARMONY_VOICES, config, hands>>

StopMelody(dt, faults) ==
  /\ \E r \in {stopMelody(machine(dt), faults)} :
        /\ Commit(machine(dt), r)
        /\ ev' = [NoEvent EXCEPT !.op = "stopMelody", !.calls = r.calls,
                                 !.escaped = r.thrown]
  /\ tr' = tracker(dt)
  /\ calmSince' = aged(calmSince, dt, SETTLE_DURATION_MS)
  /\ UNCHANGED <<MAX_HARMONY_VOICES, config, hands>>

\* one frame delivered to onHandResults, dt ms after the last handler
Frame(frame, dt, faults) ==
  /\ \E w0 \in {[m |-> machine(dt), hands |-> hands, tr |-> tracker(dt)]} :
     \E w \in {onHandResults(w0, frame, Present, config, MAX_HARMONY_VOICES, faults)} :
     LET slowHand == /\ w.hands.isLeftHandPresent
                     /\ w.hands.leftY # NoPosition
                     /\ hands.leftY # NoPosition
                     /\ ~vGreater(quotient(Abs(w.hands.leftY - hands.leftY), dt),
                                  BASS_ONLY_SPEED_THRESHOLD.n, BASS_ONLY_SPEED_THRESHOLD.d)
     IN /\ Commit(machine(dt), w.m)
        /\ hands' = w.hands
        /\ tr' = w.tr
        /\ ev' = [NoEvent EXCEPT !.op = "onHandResults", !.calls = w.m.calls,
                                 !.escaped = w.m.thrown,
                                 !.wasLeft = hands.isLeftHandPresent,
                                 !.wasRight = hands.isRightHandPresent]
        /\ calmSince' = IF ~slowHand THEN NullTime
                        ELSE IF calmSince # NullTime THEN aged(calmSince, dt, SETTLE_DURATION_MS)
                        ELSE IF audio.harmonyHandState = "moving" THEN Present
                        ELSE NullTime
  /\ UNCHANGED <<MAX_HARMONY_VOICES, config>>

\* a frame of the running camera, which counts its frames (the count is kept
\* modulo 2)
Tick(frame, dt) ==
  /\ \E w0 \in {[m |-> machine(dt), hands |-> hands, tr |-> tracker(dt)]} :
     \E w \in {onHandResults(w0, frame, Present, config, MAX_HARMONY_VOICES, {})} :
        /\ Commit(machine(dt), w.m)
        /\ hands' = w.hands
        /\ tr' = w.tr
        /\ ev' = [NoEvent EXCEPT !.op = "onHandResults", !.calls = w.m.calls,
                                 !.wasLeft = hands.isLeftHandPresent,
                                 !.wasRight = hands.isRightHandPresent,
                                 !.frameCount = (ev.frameCount + 1) % 2]
  /\ calmSince' = NullTime
  /\ UNCHANGED <<MAX_HARMONY_VOICES, config>>

\* a frame of the running camera that comes shortly after the engine has
\* emitted a chord or a note
QuickTick(frame, dt) ==
  /\ eng.lastChordChangeTime = Present \/ eng.lastNoteChangeTime = Present
  /\ Tick(frame, dt)

\* a frame that comes within the throttle's interval of an audio update
ThrottledFrame(frame, faults) ==
  /\ tr.lastAudioUpdate = Present
  /\ Frame(frame, AUDIO_UPDATE_INTERVAL, faults)

\* a frame that comes shortly after the engine has emitted a chord or a note
QuickFrame(frame, dt, faults) ==
  /\ eng.lastChordChangeTime = Present \/ eng.lastNoteChangeTime = Present
  /\ Frame(frame, dt, faults)

\* one call of a quantizer with the settings of this run
GetNote(y) ==
  /\ ev.op = "none"
  /\ ev' = [NoEvent EXCEPT !.op = "getNoteFromPosition", !.y = y,
                           !.note = getNoteFromPosition(y, config)]
  /\ UNCHANGED <<MAX_HARMONY_VOICES, config, audio, vis, eng, hands, tr, calmSince>>

GetChord(y, use7thChords) ==
  /\ ev.op = "none"
  /\ ev' = [NoEvent EXCEPT !.op = "getChordFromPosition", !.y = y,
                           !.use7thChords = use7thChords,
                           !.chord = getChordFromPosition(y, use7thChords, config)]
  /\ UNCHANGED <<MAX_HARMONY_VOICES, config, audio, vis, eng, hands, tr, calmSince>>

\* one run of animate, dt ms after the last handler: it copies the playing
\* flags into appState.audio.isPlaying, lets the particle system read the
\* state and renders the scene
Animate(dt) ==
  /\ Commit(machine(dt), machine(dt))
  /\ ev' = [NoEvent EXCEPT !.op = "animate"]
  /\ tr' = tracker(dt)
  /\ calmSince' = aged(calmSince, dt, SETTLE_DURATION_MS)
  /\ UNCHANGED <<MAX_HARMONY_VOICES, config, hands>>

\* one call of createFallbackChord with the root and the octave of this run
CreateFallbackChord ==
  /\ ev.op = "none"
  /\ config.octave # NaN
  /\ ev' = [NoEvent EXCEPT !.op = "createFallbackChord",
                           !.chord = createFallbackChord(config.selectedRoot, config.octave)]
  /\ UNCHANGED <<MAX_HARMONY_VOICES, config, audio, vis, eng, hands, tr, calmSince>>

\* a call of setupAudio of the optimized engine, dt ms after the last handler
SetupAudio(dt) ==
  /\ \E r \in {setupAudio(machine(dt), config.selectedSound)} :
        /\ Commit(machine(dt), r.m)
        /\ config' = [config EXCEPT !.selectedSound = r.selectedSound]
        /\ ev' = [NoEvent EXCEPT !.op = "setupAudio", !.escaped = r.threw]
  /\ tr' = tracker(dt)
  /\ calmSince' = aged(calmSince, dt, SETTLE_DURATION_MS)
  /\ UNCHANGED <<MAX_HARMONY_VOICES, hands>>

\* a call of setupAudio of audio/audioEngine.js, dt ms after the last handler
InitializeAudioEngine(dt) ==
  /\ \E r \in {initializeAudioEngine(machine(dt), config.selectedSound)} :
        /\ Commit(machine(dt), r.m)
        /\ config' = [config EXCEPT !.selectedSound = r.selectedSound]
        /\ ev' = [NoEvent EXCEPT !.op = "setupAudio", !.escaped = r.threw]
  /\ tr' = tracker(dt)
  /\ calmSince' = aged(calmSince, dt, SETTLE_DURATION_MS)
  /\ UNCHANGED <<MAX_HARMONY_VOICES, hands>>

\* handleStartClick with audio/audioEngine.js: the audio context is started and
\* setupAudio is called; the button stays for another click when that throws
StartAudioEngine ==
  /\ ~audio.audioStarted \/ ~eng.melodySynth
  /\ \E m \in {[machine(0) EXCEPT !.audio.audioStarted = TRUE]} :
     \E r \in {initializeAudioEngine(m, config.selectedSound)} :
        /\ Commit(machine(0), r.m)
        /\ config' = [config EXCEPT !.selectedSound = r.selectedSound]
        /\ ev' = [NoEvent EXCEPT !.op = "setupAudio", !.escaped = r.threw]
  /\ UNCHANGED <<MAX_HARMONY_VOICES, hands, tr, calmSince>>

\* the change handler of the sound selector, dt ms after the last handler: the
\* preset name is stored and updateSynths is called
SelectSound(sound, dt, faults) ==
  /\ Len(eng.disposed) + Len(eng.pendingResets) <= MaxSwaps
  /\ config' = [config EXCEPT !.selectedSound = sound]
  /\ \E r \in {updateSynths(machine(dt), sound, Present, faults)} :
        /\ Commit(machine(dt), r)
        /\ ev' = [NoEvent EXCEPT !.op = "updateSynths", !.calls = r.calls,
                                 !.escaped = r.thrown]
  /\ tr' = tracker(dt)
  /\ calmSince' = aged(calmSince, dt, SETTLE_DURATION_MS)
  /\ UNCHANGED <<MAX_HARMONY_VOICES, hands>>

\* the oldest deferred callback of updateSynths runs, dt ms after the last
\* handler and not before it is due (setTimeout gives no upper bound)
DeferredReset(dt) ==
  /\ Len(eng.pendingResets) > 0
  /\ machine(dt).eng.pendingResets[1] <= Present
  /\ Commit(machine(dt), deferredReset(machine(dt)))
  /\ ev' = [NoEvent EXCEPT !.op = "deferredReset",
                           !.prevNotes = audio.currentChord.notes,
                           !.note = audio.currentMelodyNote]
  /\ tr' = tracker(dt)
  /\ calmSince' = aged(calmSince, dt, SETTLE_DURATION_MS)
  /\ UNCHANGED <<MAX_HARMONY_VOICES, config, hands>>

\* ------------------------------------------------------------ specifications
\* any sequence of calls of the audio engine's chord functions, on a
\* synthesizer that honours every call
Next ==
  \/ StartAudio
  \/ \E chord \in Chords, y \in Positions, dt \in TimeSteps : PlayChord(chord, y, dt, {})
  \/ \E dt \in TimeSteps : StopChord(dt, {})

Spec == Init /\ [][Next]_vars

\* the same calls on a synthesizer whose methods may throw
NextFault ==
  \/ StartAudio
  \/ \E chord \in FaultChords, y \in Positions, dt \in FaultSteps, f \in HarmonyFaults :
        PlayChord(chord, y, dt, f)
  \/ \E dt \in FaultSteps, f \in HarmonyFaults : StopChord(dt, f)

SpecFault == InitShipped /\ [][NextFault]_vars

\* the calls of the melody functions, on the same synthesizer
NextMelody ==
  \/ StartAudio
  \/ \E note \in FaultNotes, y \in Positions, dt \in TimeSteps, f \in Faults :
        PlayMelodyNote(note, y, dt, f)
  \/ \E dt \in TimeSteps, f \in Faults : StopMelody(dt, f)

SpecMelody == InitShipped /\ [][NextMelody]_vars

\* any sequence of calls of the melody functions, on a synthesizer that
\* honours every call
NextMelodyCalls ==
  \/ StartAudio
  \/ \E note \in FaultNotes, y \in Positions, dt \in TimeSteps : PlayMelodyNote(note, y, dt, {})
  \/ \E dt \in TimeSteps : StopMelody(dt, {})

SpecMelodyCalls == InitShipped /\ [][NextMelodyCalls]_vars

\* the frames the hand tracker delivers, on a synthesizer that honours every call
NextFrames ==
  \/ StartAudio
  \/ \E frame \in Frames, dt \in FrameSteps : Frame(frame, dt, {})
  \/ \E frame \in Frames : ThrottledFrame(frame, {})

SpecFrames == InitShipped /\ [][NextFrames]_vars

\* frames of one hand at a time, some of them in quick succession
NextGate ==
  \/ StartAudio
  \/ \E frame \in GateFrames, dt \in GateSteps : Frame(frame, dt, {})
  \/ \E frame \in GateFrames, dt \in QuickSteps : QuickFrame(frame, dt, {})

SpecGate == InitShipped /\ [][NextGate]_vars

\* the calls of both axes between the runs of the animation loop
NextVisual ==
  \/ StartAudio
  \/ \E note \in FaultNotes, y \in MelodyPositions, dt \in FaultSteps :
        PlayMelodyNote(note, y, dt, {})
  \/ \E chord \in FaultChords, y \in Positions, dt \in FaultSteps : PlayChord(chord, y, dt, {})
  \/ \E dt \in FaultSteps : Animate(dt)

SpecVisual == InitShipped /\ [][NextVisual]_vars

\* the calls of setupAudio, of both versions of the engine, before and after
\* the start of the audio context and between the calls of both axes
NextSetup ==
  \/ StartAudio
  \/ StartAudioEngine
  \/ \E dt \in FaultSteps : SetupAudio(dt)
  \/ \E dt \in FaultSteps : InitializeAudioEngine(dt)
  \/ \E note \in FaultNotes, y \in MelodyPositions, dt \in FaultSteps :
        PlayMelodyNote(note, y, dt, {})
  \/ \E chord \in FaultChords, y \in Positions, dt \in FaultSteps : PlayChord(chord, y, dt, {})

SpecSetup == InitSetup /\ [][NextSetup]_vars

\* the calls of both axes, on a synthesizer whose methods may throw, between
\* changes of the sound preset and their deferred callbacks
NextSwap ==
  \/ StartAudio
  \/ \E note \in FaultNotes, y \in MelodyPositions, dt \in SwapSteps, f \in Faults :
        PlayMelodyNote(note, y, dt, f)
  \/ \E chord \in FaultChords, y \in MelodyPositions, dt \in SwapSteps, f \in HarmonyFaults :
        PlayChord(chord, y, dt, f)
  \/ \E dt \in SwapSteps, f \in Faults : StopMelody(dt, f)
  \/ \E dt \in SwapSteps, f \in HarmonyFaults : StopChord(dt, f)
  \/ \E sound \in SwapSounds, dt \in SwapSteps, f \in Faults : SelectSound(sound, dt, f)
  \/ \E dt \in SwapSteps : DeferredReset(dt)

SpecSwap == InitShipped /\ [][NextSwap]_vars

\* the frames of a camera that keeps running: a frame shows no hand or one
\* hand, some frames come in quick succession, before and after the start of
\* the audio
HeldPositions == {300}
HeldFrames ==
  {<<>>}
  \cup {<<h>> : h \in [label : {"Right"}, y : HeldPositions, pinch : Pinches,
                        valid : {TRUE}, classified : {TRUE}]}
  \cup {<<h>> : h \in [label : {"Left"}, y : GatePositions, pinch : Pinches,
                        valid : {TRUE}, classified : {TRUE}]}

NextHeld ==
  \/ StartAudio
  \/ \E frame \in HeldFrames, dt \in GateSteps : Tick(frame, dt)
  \/ \E frame \in HeldFrames, dt \in QuickSteps : QuickTick(frame, dt)

\* the camera delivers a frame again and again
SpecHeld ==
  /\ InitShipped
  /\ [][NextHeld]_vars
  /\ WF_vars(\E frame \in HeldFrames, dt \in GateSteps : Tick(frame, dt))

\* the quantizers as functions of the hand position and the settings
NextQuantize ==
  \/ \E y \in Ys : GetNote(y)
  \/ \E y \in Ys, use7thChords \in BOOLEAN : GetChord(y, use7thChords)
  \/ CreateFallbackChord

SpecQuantize == InitQuantize /\ [][NextQuantize]_vars

\* -------------------------------------------------------------- properties
asSet(seq) == {seq[i] : i \in 1..Len(seq)}

\* the last handler called method op of the synth
called(synth, op) ==
  \E i \in 1..Len(ev.calls) : ev.calls[i].synth = synth /\ ev.calls[i].op = op

\* the notes the last handler passed to method op of the harmony synth
passed(op) ==
  UNION {asSet(ev.calls[i].notes) :
           i \in {j \in 1..Len(ev.calls) :
                    ev.calls[j].synth = "harmony" /\ ev.calls[j].op = op}}

\* the note of lowest pitch among a chord's notes
lowestOf(chordNotes) ==
  CHOOSE n \in asSet(chordNotes) : \A k \in asSet(chordNotes) : toMidi(n) <= toMidi(k)

\* the velocity the last playChord measured, and whether it calls that fast
measured == eng.movementHistory.harmony.velocity
fast == vGreater(measured, BASS_ONLY_SPEED_THRESHOLD.n, BASS_ONLY_SPEED_THRESHOLD.d)
recorded == asSet(audio.currentChord.notes)
acceptedChord == ev.op = "playChord" /\ ev.accepted

\* C1: after every playChord / stopChord call, whatever the chords, the
\* velocities and the budget, the number of notes recorded as sounding is at
\* most MAX_HARMONY_VOICES.
VoiceBudget == Len(audio.currentChord.notes) <= MAX_HARMONY_VOICES

\* C2: at the end of a tick in which a hand is not present, nothing is recorded
\* as sounding on its axis (so it stays silent until the hand is back); and if
\* something was sounding when the hand went, the tick has released it
\* (releaseAll on the harmony synth, triggerRelease on the melody synth),
\* whether or not the throttle let the tick update the audio.
Disappearance ==
  [][/\ ~hands'.isLeftHandPresent =>
          /\ ~audio'.leftHandIsPlaying
          /\ audio'.currentChord.null
          /\ (audio.leftHandIsPlaying =>
                \E i \in 1..Len(ev'.calls) :
                   ev'.calls[i].synth = "harmony" /\ ev'.calls[i].op = "releaseAll")
     /\ ~hands'.isRightHandPresent =>
          /\ ~audio'.rightHandIsPlaying
          /\ audio'.currentMelodyNote = NullNote
          /\ (audio.rightHandIsPlaying =>
                \E i \in 1..Len(ev'.calls) :
                   ev'.calls[i].synth = "melody" /\ ev'.calls[i].op = "triggerRelease")
    ]_vars

\* a tick the throttle kept from updating the audio, in which the harmony hand
\* went while the melody hand stayed, and the chord was released
DisappearanceWitness ==
  /\ ev.op = "onHandResults"
  /\ ev.wasLeft
  /\ ~hands.isLeftHandPresent
  /\ hands.isRightHandPresent
  /\ audio.rightHandIsPlaying
  /\ tr.lastAudioUpdate # Present
  /\ called("harmony", "releaseAll")
  /\ ~audio.leftHandIsPlaying

\* C3: a playChord call in the settled state, at a slow velocity, with a chord
\* equal to the last accepted one (same name, same set of notes) calls neither
\* triggerAttack nor triggerRelease and leaves the recorded notes as they were.
RetriggerIdempotent ==
  (ev.op = "playChord" /\ ev.sameAsLast /\ ev.prevHandState = "settled" /\ ~fast)
    => /\ ~called("harmony", "triggerAttack")
       /\ ~called("harmony", "triggerRelease")
       /\ audio.currentChord.notes = ev.prevNotes

\* the equal chord came with its notes in another order, while notes sounded
RetriggerWitness ==
  /\ ev.op = "playChord"
  /\ ev.sameAsLast
  /\ ev.prevHandState = "settled"
  /\ ~fast
  /\ ev.chord.notes # eng.lastChord.notes
  /\ Len(ev.prevNotes) > 1
  /\ audio.currentChord.notes = ev.prevNotes

\* C4: in an accepted playChord update, a note that sounded before and is in
\* the new target is in no triggerRelease and no triggerAttack call and stays
\* recorded; the released, the attacked and the continuing notes are pairwise
\* disjoint.
Legato ==
  acceptedChord =>
    LET target == asSet(targetNotes(audio.harmonyHandState, ev.chord.notes, measured,
                                    fast, MAX_HARMONY_VOICES))
        both == asSet(ev.prevNotes) \cap target
    IN /\ both \cap passed("triggerRelease") = {}
       /\ both \cap passed("triggerAttack") = {}
       /\ both \subseteq recorded
       /\ passed("triggerRelease") \cap passed("triggerAttack") = {}

\* an update that released a note, attacked a note and let a note continue
LegatoWitness ==
  /\ acceptedChord
  /\ passed("triggerRelease") # {}
  /\ passed("triggerAttack") # {}
  /\ asSet(ev.prevNotes) \cap recorded # {}
  /\ asSet(ev.prevNotes) \cap recorded \cap passed("triggerAttack") = {}

\* C5: once the harmony hand, after moving fast, has stayed present and below
\* the fast threshold for more than SETTLE_DURATION_MS, a tick that updates the
\* audio leaves harmonyHandState 'settled' with the first
\* min(MAX_HARMONY_VOICES, length) notes of the chord under the hand recorded.
SettlingCompletes ==
  (/\ ev.op = "onHandResults"
   /\ tr.lastAudioUpdate = Present
   /\ calmSince # NullTime
   /\ Present - calmSince > SETTLE_DURATION_MS)
    => LET chord == getChordFromPosition(hands.leftY, FALSE, config)
       IN /\ audio.harmonyHandState = "settled"
          /\ recorded = asSet(slice0(chord.notes, Min(MAX_HARMONY_VOICES, Len(chord.notes))))

\* C6: after an accepted playChord update measured as fast, harmonyHandState
\* is 'moving' and the recorded notes are exactly the chord's note of lowest
\* pitch, whatever the order of its notes; and whenever harmonyHandState is
\* 'moving' at most one note is recorded.
MovingBassOnly ==
  /\ (acceptedChord /\ fast) =>
        /\ audio.harmonyHandState = "moving"
        /\ audio.currentChord.notes = <<lowestOf(ev.chord.notes)>>
  /\ audio.harmonyHandState = "moving" => Len(audio.currentChord.notes) <= 1

\* a fast update with a chord whose first note is not its lowest, while a
\* fuller chord sounded
MovingWitness ==
  /\ acceptedChord
  /\ fast
  /\ ev.chord.notes[1] # lowestOf(ev.chord.notes)
  /\ Len(ev.prevNotes) > 1
  /\ audio.harmonyHandState = "moving"

\* C7: after an accepted playChord update that leaves harmonyHandState
\* 'settling', the recorded notes contain the chord's bass note, are at most
\* three, and are three only if the measured velocity is below 0.3.
SettlingPartial ==
  (acceptedChord /\ audio.harmonyHandState = "settling")
    => /\ lowestOf(ev.chord.notes) \in recorded
       /\ Cardinality(recorded) <= 3
       /\ (Cardinality(recorded) = 3 => vLess(measured, 3, 10))

\* a settling update with a four-note chord, slow enough for the third note
SettlingWitness ==
  /\ acceptedChord
  /\ audio.harmonyHandState = "settling"
  /\ Len(ev.chord.notes) = 4
  /\ Cardinality(recorded) = 3
  /\ vLess(measured, 3, 10)

\* C8: after an accepted playChord update in the settled state with a chord of
\* more notes than the budget, the recorded notes are the chord's first
\* MAX_HARMONY_VOICES notes, the bass note among them, and from silence these
\* are the notes attacked.
BassFirstTruncation ==
  (acceptedChord /\ audio.harmonyHandState = "settled"
                 /\ Len(ev.chord.notes) > MAX_HARMONY_VOICES)
    => /\ recorded = asSet(slice0(ev.chord.notes, MAX_HARMONY_VOICES))
       /\ lowestOf(ev.chord.notes) \in recorded
       /\ (ev.prevNotes = <<>> => passed("triggerAttack") = recorded)

\* C9: an exception of the synthesizer does not leave the audio function that
\* made the call.
FailuresAbsorbed == ~ev.escaped

\* C10: an accepted playChord update in which the synthesizer threw has
\* advanced the model to the chord: it is the last-emitted chord and the
\* recorded one, and the hand is recorded as playing.
OptimisticModel ==
  (acceptedChord /\ \E i \in 1..Len(ev.calls) : ev.calls[i].threw)
    => /\ eng.lastChord = ev.chord
       /\ ~audio.currentChord.null
       /\ audio.currentChord.name = ev.chord.name
       /\ audio.leftHandIsPlaying

\* a frame that updates the audio shows the harmony (melody) hand, and the
\* engine takes the chord (note) under it: it records it as the last one emitted
harmonySample == /\ ev'.op = "onHandResults"
                 /\ audio.audioStarted
                 /\ tr'.lastAudioUpdate = Present
                 /\ hands'.leftY # NoPosition
melodySample == /\ ev'.op = "onHandResults"
                /\ audio.audioStarted
                /\ tr'.lastAudioUpdate = Present
                /\ hands'.rightY # NoPosition
chordTaken == eng'.lastChordChangeTime = Present
noteTaken == eng'.lastNoteChangeTime = Present

\* C11: a sample whose chord (note) differs from the last one emitted is taken
\* by the engine if the minimum interval since the last emission has passed
\* or if the hand is further from its last significant position than the
\* axis threshold.
TwoFactorGate ==
  [][/\ (/\ harmonySample
         /\ ~chordEquals(getChordFromPosition(hands'.leftY, FALSE, config), eng.lastChord)
         /\ \/ Present - eng'.lastChordChangeTime > MIN_CHORD_INTERVAL
            \/ hasSignificantChange(hands'.leftY, tr.leftHand.lastSignificantY,
                                    (POSITION_THRESHOLD * 3) \div 2))
        => chordTaken
     /\ (/\ melodySample
         /\ getNoteFromPosition(hands'.rightY, config) # eng.lastMelodyNote
         /\ \/ Present - eng'.lastNoteChangeTime > MIN_NOTE_INTERVAL
            \/ hasSignificantChange(hands'.rightY, tr.rightHand.yPosition, POSITION_THRESHOLD))
        => noteTaken
    ]_vars

\* C13: playMelodyNote calls triggerAttack only when no melody note is
\* recorded as sounding, setNote only when one is and the note differs from the
\* last one emitted, and never triggerRelease; so at most one triggerAttack is
\* called between two calls of stopMelody.
MelodySingleVoice ==
  [][ev'.op = "playMelodyNote" =>
       /\ \A i \in 1..Len(ev'.calls) :
            /\ ev'.calls[i].synth = "melody"
            /\ ev'.calls[i].op \in {"triggerAttack", "setNote"}
            /\ ev'.calls[i].op = "triggerAttack" => ~audio.rightHandIsPlaying
            /\ ev'.calls[i].op = "setNote" =>
                  audio.rightHandIsPlaying /\ ev'.note # eng.lastMelodyNote
       /\ ev'.attacks <= 1
    ]_vars

\* a note that changes the pitch of the sounding voice, after the one attack
MelodySingleVoiceWitness ==
  /\ ev.op = "playMelodyNote"
  /\ called("melody", "setNote")
  /\ ev.attacks = 1
  /\ audio.rightHandIsPlaying

\* C12: a sample the engine does not take leaves the last emitted symbol and
\* the last significant position as they were, in the tracker and in the engine.
FilterOnlyOnAcceptance ==
  [][/\ (/\ ev'.op = "onHandResults"
         /\ hands'.leftY # NoPosition
         /\ ~chordTaken)
        => /\ tr'.leftHand.note = tr.leftHand.note
           /\ tr'.leftHand.lastSignificantY = tr.leftHand.lastSignificantY
           /\ eng'.lastChord = eng.lastChord
           /\ eng'.lastChordChangeTime <= eng.lastChordChangeTime
     /\ (/\ ev'.op = "onHandResults"
         /\ hands'.rightY # NoPosition
         /\ ~noteTaken)
        => /\ tr'.rightHand.note = tr.rightHand.note
           /\ eng'.lastMelodyNote = eng.lastMelodyNote
           /\ eng'.lastNoteChangeTime <= eng.lastNoteChangeTime
    ]_vars

\* ------------------------------------------------------------ quantizers
\* a letter A-G, an optional '#', an octave 0..9
PitchStrings ==
  {letter \o sharp \o ToString(o) :
     letter \in {"A", "B", "C", "D", "E", "F", "G"}, sharp \in {"", "#"}, o \in 0..9}

\* the settings the UI offers: a note name, a scale of config.js, an octave 2..6
ValidConfig ==
  /\ config.selectedRoot \in asSet(notes)
  /\ config.selectedScale \in DOMAIN scales
  /\ config.octave \in 2..6
  /\ config.scales = scales
  /\ config.chordTypes = chordTypes
\* the same with any octave setting (the quantizers clamp it)
ValidRootAndScale ==
  /\ config.selectedRoot \in asSet(notes)
  /\ config.selectedScale \in DOMAIN scales
  /\ config.scales = scales
  /\ config.chordTypes = chordTypes
noteAsked == ev.op = "getNoteFromPosition"
chordAsked == ev.op = "getChordFromPosition"
onScreen(y) == y \in 0..1000
configuredRoot == IF config.selectedRoot = "" THEN "C" ELSE config.selectedRoot
configuredOctave == IF config.octave \in {0, NaN} THEN 4 ELSE config.octave
configuredScale == scaleArrayOf(config)

\* floor((1 - y) * (R - 1)) with R = max(14, L + 7)
positionIndex(y) ==
  ((1000 - y) * (Max(14, Len(configuredScale) + 7) - 1)) \div 1000
\* floor of the inverted linear map of y, clamped to [0.15, 0.85], onto 0..min(L,8)-1
chordDegree(y) ==
  ((850 - Max(150, Min(850, y))) * (Min(Len(configuredScale), 8) - 1)) \div 700
\* the scale entry the position selects, for a note and for a chord
noteEntry(y) ==
  IF validatedY(y) = NaN \/ Len(configuredScale) = 0 THEN undefined
  ELSE configuredScale[(positionIndex(validatedY(y)) % Len(configuredScale)) + 1]
chordEntry(y) ==
  IF validatedY(y) = NaN \/ Len(configuredScale) = 0 THEN undefined
  ELSE configuredScale[chordDegree(validatedY(y)) + 1]
invalidEntry(entry) == entry \in {NaN, undefined} \/ entry < 0 \/ entry > 12

\* C14: getNoteFromPosition returns a pitch string (a letter A-G, an optional
\* '#', an octave 0..9) for every position and every setting, malformed ones
\* included.
NoteTotal == noteAsked => ev.note \in PitchStrings

\* C15: getChordFromPosition returns, for every position, both values of
\* use7thChords and every setting, a chord with at least one note, no note
\* twice, and every note a pitch string.
ChordTotal ==
  chordAsked =>
    /\ Len(ev.chord.notes) > 0
    /\ Cardinality(asSet(ev.chord.notes)) = Len(ev.chord.notes)
    /\ asSet(ev.chord.notes) \subseteq PitchStrings

\* C16: when the scale entry the position selects is not a number or is
\* outside 0..12, getNoteFromPosition returns the configured root at the
\* clamped octave, and getChordFromPosition the major triad on the configured
\* root (on C when the root is no note name) at the clamped octave.
FallbackOnInvalidEntry ==
  /\ (noteAsked /\ invalidEntry(noteEntry(ev.y)))
       => ev.note = configuredRoot \o ToString(Max(2, Min(7, configuredOctave)))
  /\ (chordAsked /\ invalidEntry(chordEntry(ev.y)))
       => LET root == IF configuredRoot \in asSet(notes) THEN configuredRoot ELSE "C"
              octave == ToString(Max(2, Min(6, configuredOctave)))
          IN /\ ev.chord.root = root
             /\ ev.chord.type = "major"
             /\ ev.chord.notes = << root \o octave,
                                    notes[((indexOf(root) + 4) % 12) + 1] \o octave,
                                    notes[((indexOf(root) + 7) % 12) + 1] \o octave >>

\* C17: for a valid root and a shipped scale, at any octave setting, a
\* position further down the screen never gives a higher note, and the notes
\* of adjacent position indices are at most 12 semitones apart.
PitchMonotone ==
  (noteAsked /\ ValidRootAndScale /\ onScreen(ev.y)) =>
    \A y2 \in {y \in Ys : onScreen(y)} :
      /\ ev.y <= y2 => toMidi(ev.note) >= toMidi(getNoteFromPosition(y2, config))
      /\ Abs(positionIndex(ev.y) - positionIndex(y2)) = 1
           => Abs(toMidi(ev.note) - toMidi(getNoteFromPosition(y2, config))) <= 12

\* the note at the top of the screen is held at MIDI 127, above the note of
\* the position index below it, which starts the scale an octave up
PitchMonotoneWitness ==
  /\ noteAsked
  /\ ValidRootAndScale
  /\ ev.y = 0
  /\ toMidi(ev.note) = 127
  /\ \E y2 \in Ys : /\ onScreen(y2)
                     /\ positionIndex(y2) % Len(configuredScale) = 0
                     /\ positionIndex(y2) > 0
                     /\ toMidi(getNoteFromPosition(y2, config)) < 127

\* C18: for the settings the UI offers and a position on the screen, the MIDI
\* number of the returned note is
\* 60 + rootIndex + scale[pos mod L] + 12 * (octave - 4 + pos div L) with
\* pos = floor((1 - y) * (R - 1)); with the shipped settings that is C4 at
\* y = 1 and B5 at y = 0.
PositionFormula ==
  (noteAsked /\ ValidConfig /\ onScreen(ev.y)) =>
    LET L == Len(configuredScale)
        pos == positionIndex(ev.y)
    IN /\ toMidi(ev.note) = 60 + indexOf(config.selectedRoot) + configuredScale[(pos % L) + 1]
                              + 12 * (config.octave - 4 + (pos \div L))
       /\ (config = ShippedConfig /\ ev.y = 1000) => ev.note = "C4"
       /\ (config = ShippedConfig /\ ev.y = 0) => ev.note = "B5"

\* the top of the screen with the shipped settings
PositionFormulaWitness ==
  noteAsked /\ config = ShippedConfig /\ ev.y = 0 /\ ev.note = "B5"

\* C19: for the settings the UI offers, the chord's root is the pitch class
\* (rootIndex + scale[degree]) mod 12 and its type the entry of the scale's
\* progression for the degree; with the shipped settings y = 0.5 gives degree
\* 3, the major chord F.
ChordRootAndQuality ==
  (chordAsked /\ ~ev.use7thChords /\ ValidConfig /\ ev.y \notin {NaN, undefined}) =>
    LET degree == chordDegree(ev.y)
        progression == IF config.selectedScale \in DOMAIN CHORD_PROGRESSIONS
                       THEN CHORD_PROGRESSIONS[config.selectedScale]
                       ELSE CHORD_PROGRESSIONS.major
    IN /\ ev.chord.root
            = notes[((indexOf(config.selectedRoot) + configuredScale[degree + 1]) % 12) + 1]
       /\ ev.chord.type = progression[(degree % Len(progression)) + 1]
       /\ (config = ShippedConfig /\ ev.y = 500)
            => degree = 3 /\ ev.chord.type = "major" /\ ev.chord.name = "F"

\* C20: for the settings the UI offers, the lowest note of the chord is the
\* chord's root one octave below the configured octave of the melody.
HarmonyRegister ==
  (chordAsked /\ ValidConfig /\ ev.y \notin {NaN, undefined}) =>
    toMidi(lowestOf(ev.chord.notes))
      = (12 * (config.octave + 1) + indexOf(ev.chord.root)) - 12

\* C21: a position that is no usable number (a missing value, NaN) gives the
\* note and the chord of y = 0.5, and a number off the screen those of the
\* nearest end of the screen.
PositionNormalized ==
  /\ noteAsked =>
       /\ ev.y \in {NaN, undefined} => ev.note = getNoteFromPosition(500, config)
       /\ (ev.y \notin {NaN, undefined} /\ ev.y < 0) => ev.note = getNoteFromPosition(0, config)
       /\ ev.y > 1000 => ev.note = getNoteFromPosition(1000, config)
  /\ chordAsked =>
       /\ ev.y \in {NaN, undefined}
            => ev.chord = getChordFromPosition(500, ev.use7thChords, config)
       /\ (ev.y \notin {NaN, undefined} /\ ev.y < 0)
            => ev.chord = getChordFromPosition(0, ev.use7thChords, config)
       /\ ev.y > 1000 => ev.chord = getChordFromPosition(1000, ev.use7thChords, config)

\* C27: createFallbackChord returns, for every root name and octave, three
\* notes of ascending pitch: the root, the note 4 semitones above it and the
\* note 7 semitones above it; the root is the chord's bass note.
FallbackRootPosition ==
  ev.op = "createFallbackChord" =>
    /\ Len(ev.chord.notes) = 3
    /\ asSet(ev.chord.notes) \subseteq PitchStrings
    /\ toMidi(ev.chord.notes[1]) % 12 = indexOf(ev.chord.root)
    /\ toMidi(ev.chord.notes[2]) = toMidi(ev.chord.notes[1]) + 4
    /\ toMidi(ev.chord.notes[3]) = toMidi(ev.chord.notes[1]) + 7
    /\ getBassNote(ev.chord.notes) = ev.chord.notes[1]

\* the calls of the last handler on the harmony synth, by method
harmonyCalls(op) ==
  {i \in 1..Len(ev.calls) : ev.calls[i].synth = "harmony" /\ ev.calls[i].op = op}

\* C22: in a playChord update that calls triggerRelease and triggerAttack,
\* the release is called first and its time is not later than the attack's.
ReleaseBeforeAttack ==
  ev.op = "playChord" =>
    \A i \in harmonyCalls("triggerRelease"), j \in harmonyCalls("triggerAttack") :
      i < j /\ ev.calls[i].at <= ev.calls[j].at

\* an update that released notes and attacked others ATTACK_DELAY later
ReleaseBeforeAttackWitness ==
  /\ acceptedChord
  /\ harmonyCalls("triggerRelease") # {}
  /\ \E j \in harmonyCalls("triggerAttack") : ev.calls[j].at = ATTACK_DELAY

\* hand speeds from 0 to 3 screen heights a second
Speeds == {[n |-> k, d |-> 10] : k \in 0..30}
vAtMost(v1, v2) == v1.n * v2.d <= v2.n * v1.d

\* C23: the velocity playChord passes to triggerAttack lies in [0,1], and a
\* faster hand never gets a louder attack than a slower one.
AttackLoudness ==
  ev.op = "playChord" =>
    \A j \in harmonyCalls("triggerAttack") :
      /\ ev.calls[j].vel \in 0..1000
      /\ \A s \in Speeds :
           /\ vAtMost(measured, s) => ev.calls[j].vel >= attackVelocity(s)
           /\ vAtMost(s, measured) => ev.calls[j].vel <= attackVelocity(s)

\* an attack of a hand that moves, softer than that of a hand at rest
AttackLoudnessWitness ==
  /\ acceptedChord
  /\ measured.n > 0
  /\ \E j \in harmonyCalls("triggerAttack") : ev.calls[j].vel > 0 /\ ev.calls[j].vel < 800

\* the hand state before the last playChord call, after its initialisation
stateBefore == IF ev.prevHandState = "undefined" THEN "settled" ELSE ev.prevHandState

SettleTimer ==
  /\ audio.harmonyHandState = "moving" => audio.settleStartTime = NullTime
  /\ audio.harmonyHandState = "settling"
       => audio.settleStartTime > 0 /\ audio.settleStartTime <= Present

\* a settling hand that moves fast again: its timer is reset
SettleTimerWitness ==
  /\ acceptedChord
  /\ ev.prevHandState = "settling"
  /\ audio.harmonyHandState = "moving"
  /\ audio.settleStartTime = NullTime

\* C30: an accepted change comes more than the axis's minimum interval after
\* the accepted change before it.
MinimumSpacing ==
  (ev.accepted /\ ev.sinceLast # NullTime) =>
    /\ ev.op = "playChord" => ev.sinceLast > MIN_CHORD_INTERVAL
    /\ ev.op = "playMelodyNote" => ev.sinceLast > MIN_NOTE_INTERVAL

\* C25: at the end of a tick that does not show the harmony hand, no note is
\* recorded as sounding, there is no settle timer and harmonyHandState is not
\* 'settled'.
AbsentNeverSettled ==
  (ev.op = "onHandResults" /\ ~hands.isLeftHandPresent) =>
    /\ recorded = {}
    /\ audio.settleStartTime \in {NullTime, UndefinedTime}
    /\ audio.harmonyHandState # "settled"

\* C26: the visual factors stay within [0,1], and a run of the animation loop
\* lowers a factor that an accepted change has set.
ImpulsesDecay ==
  [][/\ vis'.particleExplosionFactor \in 0..1000
     /\ vis'.pulseFactor \in 0..1000
     /\ ev'.op = "animate" =>
          /\ vis.particleExplosionFactor > 0
               => vis'.particleExplosionFactor < vis.particleExplosionFactor
          /\ vis.pulseFactor > 0 => vis'.pulseFactor < vis.pulseFactor
    ]_vars

\* the fields of the audio machine that belong to one axis
harmonyFields(m) ==
  <<m.audio.leftHandIsPlaying, m.audio.currentChord, m.audio.harmonyHandState,
    m.audio.settleStartTime, m.eng.movementHistory.harmony, m.eng.lastChord,
    m.eng.lastChordChangeTime>>
melodyFields(m) ==
  <<m.audio.rightHandIsPlaying, m.audio.currentMelodyNote, m.eng.lastMelodyNote,
    m.eng.lastNoteChangeTime, m.eng.movementHistory.melody>>
callsOn(m, synth) == SelectSeq(m.calls, LAMBDA c : c.synth = synth)

\* the outcomes of one tick with the two hands in either order
sameInEitherOrder(h1, h2, dt) ==
  LET w0 == [m |-> machine(dt), hands |-> hands, tr |-> tracker(dt)]
      a == onHandResults(w0, <<h1, h2>>, Present, config, MAX_HARMONY_VOICES, {})
      b == onHandResults(w0, <<h2, h1>>, Present, config, MAX_HARMONY_VOICES, {})
  IN /\ a.m.audio = b.m.audio
     /\ a.m.eng = b.m.eng
     /\ a.m.vis = b.m.vis
     /\ a.tr = b.tr
     /\ a.hands = b.hands
     /\ callsOn(a.m, "melody") = callsOn(b.m, "melody")
     /\ callsOn(a.m, "harmony") = callsOn(b.m, "harmony")

\* C24: from every state, a tick with a harmony and a melody hand ends in the
\* same audio, engine and tracker state and makes the same calls on each
\* synth whichever hand comes first; the melody functions leave the fields
\* of the harmony axis as they are, and the chord functions those of the
\* melody axis.
AxisIndependence ==
  /\ \A h1 \in HarmonyHands, h2 \in MelodyHands, dt \in GateSteps :
       sameInEitherOrder(h1, h2, dt)
  /\ \A dt \in FrameSteps :
       /\ harmonyFields(stopMelody(machine(dt), {})) = harmonyFields(machine(dt))
       /\ melodyFields(stopChord(machine(dt), {})) = melodyFields(machine(dt))
       /\ \A note \in FaultNotes, y \in Positions :
            harmonyFields(playMelodyNote(machine(dt), note, y, hands.rightY, Present, {}))
              = harmonyFields(machine(dt))
       /\ \A chord \in FaultChords, y \in Positions :
            melodyFields(playChord(machine(dt), chord, y, hands.leftY, Present,
                                   MAX_HARMONY_VOICES, {}))
              = melodyFields(machine(dt))

\* a tick with both hands that called both synths, while a note and a chord
\* were sounding
AxisIndependenceWitness ==
  /\ ev.op = "onHandResults"
  /\ hands.isLeftHandPresent
  /\ hands.isRightHandPresent
  /\ \E i, j \in 1..Len(ev.calls) : ev.calls[i].synth = "melody" /\ ev.calls[j].synth = "harmony"
  /\ audio.leftHandIsPlaying
  /\ audio.rightHandIsPlaying


isFallback(chord) == "error" \in DOMAIN chord

\* C36: with a scale of config.js, a valid root, an octave 2..6 and a position
\* on the screen, getChordFromPosition never returns the fallback chord: the
\* chord has no error flag and is the chord createChord builds on the scale
\* degree's root, with the quality of the progression table, one octave below
\* the configured octave.
NeverFallback ==
  (chordAsked /\ ValidConfig /\ onScreen(ev.y)) =>
    /\ ~isFallback(ev.chord)
    /\ ~ev.use7thChords =>
         LET degree == chordDegree(ev.y)
             progression == IF config.selectedScale \in DOMAIN CHORD_PROGRESSIONS
                            THEN CHORD_PROGRESSIONS[config.selectedScale]
                            ELSE CHORD_PROGRESSIONS.major
         IN ev.chord
              = createChord(notes[((indexOf(config.selectedRoot)
                                      + configuredScale[degree + 1]) % 12) + 1],
                            progression[(degree % Len(progression)) + 1],
                            config.octave - 1)


\* C32: after every playChord and stopChord call on a synth that honours
\* every call, the notes recorded in currentChord.notes are exactly the notes
\* that were attacked and not released since; a note cut from the attack list
\* by the voice budget is not recorded.
ModelMatchesSynth ==
  ev.op \in {"playChord", "stopChord"} => recorded = ev.sounding


\* the audio machine after a handler, as the next call in the same tick finds it
afterwards(m) == [m EXCEPT !.calls = <<>>]
sameState(m1, m2) == m1.audio = m2.audio /\ m1.eng = m2.eng /\ m1.vis = m2.vis

\* C35: from every state, a second stopChord (stopMelody) call right after
\* the first leaves the state of the first and calls no synth; a tick that
\* shows no hand, which runs both stop blocks twice, releases each synth at
\* most once.
StopIdempotent ==
  /\ LET once == stopChord(machine(0), {})
         twice == stopChord(afterwards(once), {})
     IN sameState(twice, once) /\ twice.calls = <<>>
  /\ LET once == stopMelody(machine(0), {})
         twice == stopMelody(afterwards(once), {})
     IN sameState(twice, once) /\ twice.calls = <<>>
  /\ (ev.op = "onHandResults" /\ ~hands.handDetected) =>
       /\ Cardinality(harmonyCalls("releaseAll")) <= 1
       /\ Cardinality({i \in 1..Len(ev.calls) : ev.calls[i].synth = "melody"}) <= 1

\* a tick without hands that has released a sounding chord and a sounding note
StopIdempotentWitness ==
  /\ ev.op = "onHandResults"
  /\ ~hands.handDetected
  /\ ev.wasLeft
  /\ ev.wasRight
  /\ Cardinality(harmonyCalls("releaseAll")) = 1
  /\ called("melody", "triggerRelease")
  /\ ~audio.leftHandIsPlaying
  /\ ~audio.rightHandIsPlaying


\* C38: a call of setupAudio creates no synth while audioStarted is false;
\* over any sequence of calls the pair of synths is created at most once; and
\* a call that finds the audio started, no synth and an unknown preset name
\* selects the first preset, creates both synths and does not throw.
SetupInitialises ==
  [][ev'.op \in {"setupAudio", "startAudio"} =>
       /\ ~audio'.audioStarted => eng'.disposed = eng.disposed
       /\ Len(eng'.disposed) <= 1
       /\ (audio'.audioStarted /\ ~eng.melodySynth /\ ~eng.harmonySynth
             /\ ~includes(soundPresets, config.selectedSound))
            => /\ config'.selectedSound = soundPresets[1]
               /\ eng'.melodySynth
               /\ eng'.harmonySynth
               /\ ~ev'.escaped
    ]_vars


\* C33: after every call of playMelodyNote, playChord, stopMelody and
\* stopChord and every deferred callback of updateSynths, rightHandIsPlaying
\* is true exactly when a melody note is recorded and leftHandIsPlaying
\* exactly when a chord with at least one note is recorded.
PlayingFlagsAgree ==
  /\ audio.rightHandIsPlaying <=> audio.currentMelodyNote # NullNote
  /\ audio.leftHandIsPlaying
       <=> (~audio.currentChord.null /\ Len(audio.currentChord.notes) > 0)

\* a deferred callback that has reset both axes while a note and a chord
\* were recorded
PlayingFlagsAgreeWitness ==
  /\ ev.op = "deferredReset"
  /\ ev.prevNotes # <<>>
  /\ ev.note # NullNote
  /\ ~audio.rightHandIsPlaying
  /\ ~audio.leftHandIsPlaying

\* C34: once the last deferred callback of updateSynths has run, whatever
\* calls of the two axes came between, both playing flags are false, no note
\* and no chord is recorded or remembered as last, every synth created
\* before has been disposed of exactly once, and one melody synth and one
\* harmony synth are live.
SwapCompletes ==
  (ev.op = "deferredReset" /\ eng.pendingResets = <<>>) =>
    /\ ~audio.rightHandIsPlaying
    /\ ~audio.leftHandIsPlaying
    /\ audio.currentMelodyNote = NullNote
    /\ audio.currentChord.null
    /\ eng.lastMelodyNote = NullNote
    /\ eng.lastChord.null
    /\ \A i \in 1..(Len(eng.disposed) - 1) : eng.disposed[i] = [melody |-> 1, harmony |-> 1]
    /\ eng.disposed[Len(eng.disposed)] = [melody |-> 0, harmony |-> 0]
    /\ eng.synthPair = Len(eng.disposed)
    /\ eng.melodySynth
    /\ eng.harmonySynth

\* the callback of the second of two changes of the preset, with a chord
\* recorded as sounding when it ran
SwapCompletesWitness ==
  /\ ev.op = "deferredReset"
  /\ eng.pendingResets = <<>>
  /\ Len(eng.disposed) = MaxSwaps + 1
  /\ ev.prevNotes # <<>>


\* the audio is started and the last frame showed the hand at y; the axis is
\* playing what the quantizer gives for y
heldMelody(y) == audio.audioStarted /\ hands.isRightHandPresent /\ hands.rightY = y
heldHarmony(y) == audio.audioStarted /\ hands.isLeftHandPresent /\ hands.leftY = y
heardMelody(y) ==
  audio.rightHandIsPlaying /\ audio.currentMelodyNote = getNoteFromPosition(y, config)
heardHarmony(y) ==
  /\ audio.leftHandIsPlaying
  /\ audio.currentChord.name = getChordFromPosition(y, FALSE, config).name

\* C31: when the audio is started and from some frame on every frame shows a
\* hand at the same position, the hand's axis comes to play the note or the
\* chord of that position: a change that was throttled or came before the
\* audio was started is taken up by a later frame.
HeldHandHeard ==
  /\ \A y \in GatePositions : []([]heldMelody(y) => <>heardMelody(y))
  /\ \A y \in HeldPositions : []([]heldHarmony(y) => <>heardHarmony(y))

====
